---- MODULE Spec2Model ----
(***************************************************************************)
(* A model of the GemKit hook scripts: the session manager                 *)
(* (gk-session-manager.cjs), the SessionStart/BeforeAgent/BeforeModel hook *)
(* (gk-session-init.cjs), the SessionEnd hook (gk-session-end.cjs), the    *)
(* dev-rules reminder hook, the Discord notify hook and the config loader  *)
(* (gk-config-utils.cjs).                                                  *)
(*                                                                         *)
(* Identifiers are pairs <<kind, n>>: <<"gem", n>> is a Gemini CLI session *)
(* UUID, <<"gk", n>> a generated gkSessionId, None the null / empty id.    *)
(* Plans, prompts and project hashes are naturals, 0 standing for null or  *)
(* the empty string.                                                       *)
(***************************************************************************)
EXTENDS Integers, Sequences, FiniteSets, TLC

\* ------------------------------------------------------------------ bounds
MaxGemini == 2
MaxSub == 1
MaxIds == 3
MaxAgents == 3

None == <<"none", 0>>
\* session ids of main-agent Gemini CLI processes, and of sub-agent processes
GeminiIds == {<<"gem", n>> : n \in 1..MaxGemini}
SubIds == {<<"sub", n>> : n \in 1..MaxSub}
\* generated gkSessionIds: the names of the session files
GkIds == {<<"gk", n>> : n \in 1..MaxIds}
FileIds == GkIds
\* a GK_SUB_SESSION_ID handed to a sub-agent by its spawner
PreGenId == <<"pre", 1>>
\* GEMINI_AGENT_ROLE: "" is unset
RoleEnv == {"", "tester"}
Values == {0, 1}

VARIABLES
  sessions,   \* FileIds -> content of gk-session-{id}.json (exists = FALSE: no file)
  project,    \* content of gk-project-{hash}.json
  env,        \* content of .gemini/.env
  nextId,     \* number of ids generated so far (also the logical clock)
  procEnv,    \* SubIds -> the environment a sub-agent process was spawned with
  race,       \* concurrent runs of the session-init hook, one file system call at a time
  notify,     \* concurrent runs of the notify hook, the marker files and the POSTs sent
  config,     \* the config files and what loadConfig returned for them
  call        \* a library function applied: its arguments and, once returned, its result

vars == <<sessions, project, env, nextId, procEnv, race, notify, config, call>>

\* no library function is being applied
NoCall == [fn |-> "none"]

\* ------------------------------------------------------------ .gemini/.env
EmptyEnv ==
  [ACTIVE_GK_SESSION_ID |-> None, GK_PROJECT_HASH |-> 0, PROJECT_DIR |-> 0,
   ACTIVE_GEMINI_SESSION_ID |-> None, GEMINI_PROJECT_HASH |-> 0,
   ACTIVE_PLAN |-> 0, SUGGESTED_PLAN |-> 0, PLAN_DATE_FORMAT |-> 0]

\* readEnv: the file's values, with the legacy mapping of
\* ACTIVE_GEMINI_SESSION_ID onto an empty ACTIVE_GK_SESSION_ID.
readEnv(e) ==
  [e EXCEPT !.ACTIVE_GK_SESSION_ID =
     IF @ = None THEN e.ACTIVE_GEMINI_SESSION_ID ELSE @]

\* updateEnv: the whole file is rewritten from envData.
updateEnv(st, d) ==
  [st EXCEPT !.E =
     [ACTIVE_GK_SESSION_ID |-> d.gkSessionId, GK_PROJECT_HASH |-> d.gkProjectHash,
      PROJECT_DIR |-> d.projectDir, ACTIVE_GEMINI_SESSION_ID |-> d.geminiSessionId,
      GEMINI_PROJECT_HASH |-> d.geminiProjectHash, ACTIVE_PLAN |-> d.activePlan,
      SUGGESTED_PLAN |-> d.suggestedPlan, PLAN_DATE_FORMAT |-> d.planDateFormat]]

\* a || b on values where 0 is the falsy one
Or0(a, b) == IF a # 0 THEN a ELSE b
\* a || b on ids where None is the falsy one
OrId(a, b) == IF a # None THEN a ELSE b

\* ---------------------------------------------------------- session files
NoFile ==
  [exists |-> FALSE, corrupt |-> FALSE, gkSessionId |-> None, gkProjectHash |-> 0, projectDir |-> 0,
   geminiSessionId |-> None, initialized |-> FALSE, geminiProjectHash |-> 0,
   geminiTempDir |-> 0, capturedAt |-> FALSE, activePlan |-> 0, suggestedPlan |-> 0,
   planDateFormat |-> 0, initTimestamp |-> 0, lastReminder |-> FALSE,
   projectHash |-> 0, agents |-> <<>>]

\* A session file whose content does not parse as JSON.
CorruptFile == [NoFile EXCEPT !.exists = TRUE, !.corrupt = TRUE]

\* getSession: null (exists = FALSE) for a missing id, a missing file or a
\* file that does not parse
getSession(st, id) ==
  IF id \in FileIds /\ st.S[id].exists /\ ~st.S[id].corrupt THEN st.S[id] ELSE NoFile

\* saveSession: temp file + rename, seen here as one step
saveSession(st, id, data) ==
  IF id \notin FileIds THEN st
  ELSE [st EXCEPT !.S[id] = [data EXCEPT !.exists = TRUE, !.corrupt = FALSE]]

updateSession(st, id, updates) ==
  LET session == getSession(st, id) IN
  IF ~session.exists THEN st
  ELSE saveSession(st, id,
         [f \in DOMAIN session |->
            IF f \in DOMAIN updates THEN updates[f] ELSE session[f]])

\* agents.findIndex(a => a.gkSessionId === aid), 1-based, 0 when none
IndexByGk(agents, aid) ==
  IF \E i \in 1..Len(agents) : agents[i].gkSessionId = aid
  THEN CHOOSE i \in 1..Len(agents) :
         /\ agents[i].gkSessionId = aid
         /\ \A j \in 1..(i - 1) : agents[j].gkSessionId # aid
  ELSE 0

\* agents.findIndex(a => a.geminiSessionId === g), 1-based, 0 when none
IndexByGemini(agents, g) ==
  IF \E i \in 1..Len(agents) : agents[i].geminiSessionId = g
  THEN CHOOSE i \in 1..Len(agents) :
         /\ agents[i].geminiSessionId = g
         /\ \A j \in 1..(i - 1) : agents[j].geminiSessionId # g
  ELSE 0

\* ------------------------------------------------------------------ agents
NewAgent(aid, ad) ==
  [gkSessionId |-> aid,
   geminiSessionId |-> ad.geminiSessionId,
   geminiProjectHash |-> ad.geminiProjectHash,
   parentGkSessionId |-> ad.parentGkSessionId,
   agentType |-> IF ad.parentGkSessionId # None THEN "Sub Agent" ELSE "Main Agent",
   agentRole |-> ad.agentRole,
   prompt |-> ad.prompt,
   ended |-> FALSE,
   status |-> "active",
   exitCode |-> -1]

\* addAgent, lines 642-677: the session object with the agent merged in
WithAgent(session, sid, ad) ==
  LET aid == OrId(ad.gkSessionId, sid)
      idx == IndexByGk(session.agents, aid)
  IN IF idx > 0
     THEN [session EXCEPT !.agents[idx].prompt = Or0(@, ad.prompt)]
     ELSE [session EXCEPT !.agents = Append(@, NewAgent(aid, ad))]

addAgent(st, sid, ad) ==
  LET session == getSession(st, sid)
  IN IF ~session.exists THEN st
     ELSE saveSession(st, sid, WithAgent(session, sid, ad))

updateAgent(st, sid, aid, updates) ==
  LET session == getSession(st, sid)
      idx == IndexByGk(session.agents, aid)
  IN IF ~session.exists \/ idx = 0 THEN st
     ELSE saveSession(st, sid,
            [session EXCEPT !.agents[idx] =
               [f \in DOMAIN @ |-> IF f \in DOMAIN updates THEN updates[f] ELSE @[f]]])

updateAgentGeminiSession(st, sid, aid, g) ==
  LET session == getSession(st, sid)
      idx == IndexByGk(session.agents, aid)
  IN IF ~session.exists \/ idx = 0 THEN st
     ELSE saveSession(st, sid, [session EXCEPT !.agents[idx].geminiSessionId = g])

endAgent(st, sid, aid, result) ==
  updateAgent(st, sid, aid,
    [ended |-> TRUE, status |-> result.status, exitCode |-> result.exitCode])

\* updateAgentPrompt without its test of agent.prompt
updateAgentPromptAlways(st, sid, aid, prompt) ==
  updateAgent(st, sid, aid, [prompt |-> prompt])

updateAgentPrompt(st, sid, aid, prompt) ==
  LET session == getSession(st, sid)
      idx == IndexByGk(session.agents, aid)
  IN IF ~session.exists \/ idx = 0 THEN st
     ELSE IF session.agents[idx].prompt # 0 THEN st
     ELSE updateAgent(st, sid, aid, [prompt |-> prompt])

\* ----------------------------------------------------------------- project
NoProject ==
  [exists |-> FALSE, torn |-> FALSE, geminiProjectHash |-> 0,
   activeGkSessionId |-> None, sessions |-> <<>>]

\* getProject: null (exists = FALSE) without a project hash, for a missing
\* file and for a file that does not parse (torn)
getProject(st, gkProjectHash) ==
  IF gkProjectHash = 0 \/ st.P.torn THEN NoProject ELSE st.P

\* saveProject: fs.writeFileSync on the final path, seen here as one step
saveProject(st, data) ==
  [st EXCEPT !.P = [data EXCEPT !.exists = TRUE, !.torn = FALSE]]

ensureProject(st) ==
  IF getProject(st, 1).exists THEN st ELSE saveProject(st, NoProject)

SummaryIndex(summaries, id) ==
  IF \E i \in 1..Len(summaries) : summaries[i].gkSessionId = id
  THEN CHOOSE i \in 1..Len(summaries) :
         /\ summaries[i].gkSessionId = id
         /\ \A j \in 1..(i - 1) : summaries[j].gkSessionId # id
  ELSE 0

\* Stable insertion of x into a sequence sorted by startTime descending.
RECURSIVE InsertDesc(_, _)
InsertDesc(sorted, x) ==
  IF sorted = <<>> THEN <<x>>
  ELSE IF Head(sorted).startTime >= x.startTime
       THEN <<Head(sorted)>> \o InsertDesc(Tail(sorted), x)
       ELSE <<x>> \o sorted

\* project.sessions.sort((a, b) => timeB - timeA): a stable sort
RECURSIVE SortDesc(_)
SortDesc(seq) ==
  IF seq = <<>> THEN <<>>
  ELSE InsertDesc(SortDesc(SubSeq(seq, 1, Len(seq) - 1)), seq[Len(seq)])

\* addSessionToProject, lines 915-949: the project object with the summary
\* merged in and the summaries sorted again
MergeSummary(p, sum, now) ==
  LET idx == SummaryIndex(p.sessions, sum.gkSessionId)
      merged ==
        IF idx > 0
        THEN [p.sessions EXCEPT ![idx] =
                [gkSessionId |-> sum.gkSessionId,
                 prompt |-> Or0(sum.prompt, @.prompt),
                 activePlan |-> Or0(sum.activePlan, @.activePlan),
                 startTime |-> Or0(sum.startTime, @.startTime),
                 ended |-> sum.ended \/ @.ended]]
        ELSE Append(p.sessions,
                [gkSessionId |-> sum.gkSessionId, prompt |-> sum.prompt,
                 activePlan |-> sum.activePlan,
                 startTime |-> Or0(sum.startTime, now),
                 ended |-> sum.ended])
  IN [p EXCEPT !.activeGkSessionId = sum.gkSessionId,
               !.sessions = SortDesc(merged)]

addSessionToProject(st, sum) ==
  LET st1 == ensureProject(st)
  IN saveProject(st1, MergeSummary(getProject(st1, 1), sum, st.N))

\* ------------------------------------------------- high-level operations
\* The rank of a file in the directory listing (fs.readdirSync order).
FileRank(id) == id[2]

\* findSessionByGeminiId: the first session file of the listing whose
\* geminiSessionId is g; None for no match or a null g. A file that does not
\* parse throws out of the loop, and the scan ends with null.
findSessionByGeminiId(st, g) ==
  LET matches == {id \in FileIds : /\ st.S[id].exists /\ ~st.S[id].corrupt
                                   /\ st.S[id].geminiSessionId = g}
      first == CHOOSE id \in matches : \A o \in matches : FileRank(id) <= FileRank(o)
  IN IF g = None \/ matches = {} THEN None
     ELSE IF \E c \in FileIds : /\ st.S[c].exists /\ st.S[c].corrupt
                                 /\ FileRank(c) < FileRank(first)
     THEN None
     ELSE first

\* The env written when an existing session is taken over (resume).
ResumeEnv(st, existing, g) ==
  [gkSessionId |-> existing.gkSessionId,
   gkProjectHash |-> Or0(existing.gkProjectHash, 1),
   projectDir |-> 1,
   geminiSessionId |-> g,
   geminiProjectHash |-> Or0(existing.geminiProjectHash, readEnv(st.E).GEMINI_PROJECT_HASH),
   activePlan |-> existing.activePlan,
   suggestedPlan |-> existing.suggestedPlan,
   planDateFormat |-> existing.planDateFormat]

\* The session object initializeGeminiSession creates.
NewSession(id, g, now, opts) ==
  [exists |-> TRUE, corrupt |-> FALSE, gkSessionId |-> id, gkProjectHash |-> 1,
   projectDir |-> 1,
   geminiSessionId |-> g, initialized |-> TRUE, geminiProjectHash |-> 0,
   geminiTempDir |-> 0, capturedAt |-> FALSE, activePlan |-> opts.activePlan,
   suggestedPlan |-> opts.suggestedPlan, planDateFormat |-> opts.planDateFormat,
   initTimestamp |-> now, lastReminder |-> FALSE, projectHash |-> 0, agents |-> <<>>]

\* The summary of a new session, as initializeGeminiSession hands it to
\* addSessionToProject.
NewSummary(session) ==
  [gkSessionId |-> session.gkSessionId, prompt |-> 0,
   activePlan |-> session.activePlan, startTime |-> session.initTimestamp,
   ended |-> FALSE]

\* The env written for a new session.
CreateEnv(st, session) ==
  [gkSessionId |-> session.gkSessionId, gkProjectHash |-> 1, projectDir |-> 1,
   geminiSessionId |-> session.geminiSessionId,
   geminiProjectHash |-> readEnv(st.E).GEMINI_PROJECT_HASH,
   activePlan |-> session.activePlan,
   suggestedPlan |-> session.suggestedPlan,
   planDateFormat |-> session.planDateFormat]

\* initializeGeminiSession, lines 1047-1114: create the session, add it to the
\* project, rewrite .env.
CreateGeminiSession(st, g, opts) ==
  LET id == <<"gk", st.N + 1>>
      st0 == [st EXCEPT !.N = @ + 1]
      session == NewSession(id, g, st0.N, opts)
      st1 == saveSession(st0, id, session)
      st2 == addSessionToProject(ensureProject(st1), NewSummary(session))
      st3 == updateEnv(st2, CreateEnv(st2, session))
  IN [st |-> st3, gkSessionId |-> id, isResume |-> FALSE]

\* initializeGeminiSession: [st, gkSessionId, isResume]
initializeGeminiSession(st, g, opts) ==
  LET existingSessionPath == findSessionByGeminiId(st, g)
      doubleCheck == findSessionByGeminiId(st, g)
  IN IF existingSessionPath # None
     THEN [st |-> updateEnv(st, ResumeEnv(st, st.S[existingSessionPath], g)),
           gkSessionId |-> st.S[existingSessionPath].gkSessionId,
           isResume |-> TRUE]
     ELSE IF doubleCheck # None
     THEN [st |-> updateEnv(st, ResumeEnv(st, st.S[doubleCheck], g)),
           gkSessionId |-> st.S[doubleCheck].gkSessionId,
           isResume |-> TRUE]
     ELSE CreateGeminiSession(st, g, opts)

\* The env rewritten from the values read back from it, with a new project hash.
KeepEnv(e, hash) ==
  [gkSessionId |-> e.ACTIVE_GK_SESSION_ID, gkProjectHash |-> e.GK_PROJECT_HASH,
   projectDir |-> e.PROJECT_DIR, geminiSessionId |-> e.ACTIVE_GEMINI_SESSION_ID,
   geminiProjectHash |-> hash, activePlan |-> e.ACTIVE_PLAN,
   suggestedPlan |-> e.SUGGESTED_PLAN, planDateFormat |-> e.PLAN_DATE_FORMAT]

captureGeminiProjectHash(st, sid, hash, tempDir) ==
  LET session == getSession(st, sid)
      updates ==
        [f \in {x \in {"geminiProjectHash", "geminiTempDir", "capturedAt"} :
                  \/ x = "geminiProjectHash" /\ session.geminiProjectHash = 0 /\ hash # 0
                  \/ x = "geminiTempDir" /\ session.geminiTempDir = 0 /\ tempDir # 0
                  \/ x = "capturedAt" /\ ~session.capturedAt} |->
           IF f = "geminiProjectHash" THEN hash
           ELSE IF f = "geminiTempDir" THEN tempDir ELSE TRUE]
      st1 == updateSession(st, sid, updates)
      p == getProject(st1, session.gkProjectHash)
      st2 == IF p.exists /\ p.geminiProjectHash = 0
             THEN saveProject(st1, [p EXCEPT !.geminiProjectHash = hash])
             ELSE st1
      e == readEnv(st2.E)
  IN IF ~session.exists THEN st
     ELSE IF session.geminiProjectHash # 0 /\ session.geminiTempDir # 0 THEN st
     ELSE IF DOMAIN updates = {} THEN st
     ELSE updateEnv(st2,
            [gkSessionId |-> OrId(session.gkSessionId, OrId(e.ACTIVE_GK_SESSION_ID, sid)),
             gkProjectHash |-> Or0(session.gkProjectHash, e.GK_PROJECT_HASH),
             projectDir |-> Or0(session.projectDir, e.PROJECT_DIR),
             geminiSessionId |-> OrId(session.geminiSessionId, e.ACTIVE_GEMINI_SESSION_ID),
             geminiProjectHash |->
               Or0(hash, Or0(session.geminiProjectHash, e.GEMINI_PROJECT_HASH)),
             activePlan |-> Or0(session.activePlan, e.ACTIVE_PLAN),
             suggestedPlan |-> Or0(session.suggestedPlan, e.SUGGESTED_PLAN),
             planDateFormat |-> Or0(session.planDateFormat, e.PLAN_DATE_FORMAT)])

captureAgentProjectHash(st, parentId, g, hash) ==
  LET session == getSession(st, parentId)
      idx == IndexByGemini(session.agents, g)
      setAgent == idx > 0 /\ session.agents[idx].geminiProjectHash = 0
      s1 == IF setAgent
            THEN [session EXCEPT !.agents[idx].geminiProjectHash = hash]
            ELSE session
      s2 == IF s1.geminiProjectHash = 0 THEN [s1 EXCEPT !.geminiProjectHash = hash]
            ELSE s1
      st1 == saveSession(st, parentId, s2)
      e == readEnv(st1.E)
  IN IF parentId = None \/ g = None \/ hash = 0 THEN st
     ELSE IF ~session.exists THEN st
     ELSE IF s2 = session THEN st
     ELSE IF e.GEMINI_PROJECT_HASH = 0 THEN updateEnv(st1, KeepEnv(e, hash))
     ELSE st1

\* backfillProjectHash without the test of the parent's own hash
backfillProjectHashAlways(st, childId, parentId) ==
  LET child == getSession(st, childId)
      parent == getSession(st, parentId)
  IN IF ~child.exists \/ ~parent.exists THEN st
     ELSE IF child.geminiProjectHash = 0 THEN st
     ELSE updateSession(st, parentId,
            [geminiProjectHash |-> child.geminiProjectHash,
             geminiTempDir |-> child.geminiTempDir])

\* backfillProjectHash: the parent takes the child's project hash and temp
\* directory when it has no hash of its own.
backfillProjectHash(st, childId, parentId) ==
  LET child == getSession(st, childId)
      parent == getSession(st, parentId)
  IN IF ~child.exists \/ ~parent.exists THEN st
     ELSE IF child.geminiProjectHash = 0 THEN st
     ELSE IF parent.geminiProjectHash # 0 THEN st
     ELSE updateSession(st, parentId,
            [geminiProjectHash |-> child.geminiProjectHash,
             geminiTempDir |-> child.geminiTempDir])

\* setActivePlan without the rewrite of .env
setActivePlanSessionOnly(st, projectDir, gkSessionId, planPath) ==
  LET session == getSession(st, gkSessionId)
  IN IF ~session.exists THEN [st |-> st, returned |-> FALSE]
     ELSE [st |-> saveSession(st, gkSessionId,
                    [session EXCEPT !.activePlan = planPath, !.suggestedPlan = 0]),
           returned |-> TRUE]

\* setActivePlan: the plan is written to the session file, then .env is
\* rewritten for this session; null is the value 0 of a plan.
setActivePlan(st, projectDir, gkSessionId, planPath) ==
  LET session == getSession(st, gkSessionId)
      st1 == saveSession(st, gkSessionId,
               [session EXCEPT !.activePlan = planPath, !.suggestedPlan = 0])
      e == readEnv(st1.E)
  IN IF ~session.exists THEN [st |-> st, returned |-> FALSE]
     ELSE [st |-> updateEnv(st1,
                    [gkSessionId |-> gkSessionId,
                     gkProjectHash |-> Or0(session.gkProjectHash, e.GK_PROJECT_HASH),
                     projectDir |-> projectDir,
                     geminiSessionId |->
                       OrId(session.geminiSessionId, e.ACTIVE_GEMINI_SESSION_ID),
                     geminiProjectHash |->
                       Or0(session.geminiProjectHash, e.GEMINI_PROJECT_HASH),
                     activePlan |-> planPath,
                     suggestedPlan |-> 0,
                     planDateFormat |-> Or0(session.planDateFormat, e.PLAN_DATE_FORMAT)]),
           returned |-> TRUE]

\* endSession: end the main agent, then record the end in the project.
endSession(st, sid, result) ==
  LET session == getSession(st, sid)
      IsMain(a) == a.agentType = "Main Agent" /\ a.gkSessionId = sid
      hasMain == \E i \in 1..Len(session.agents) : IsMain(session.agents[i])
      st1 == IF hasMain THEN endAgent(st, sid, sid, result) ELSE st
      updated == getSession(st1, sid)
      mainIdx == IF hasMain
                 THEN CHOOSE i \in 1..Len(updated.agents) :
                        /\ IsMain(updated.agents[i])
                        /\ \A j \in 1..(i - 1) : ~IsMain(updated.agents[j])
                 ELSE 0
      gkProjectHash == Or0(updated.gkProjectHash, session.gkProjectHash)
  IN IF ~session.exists THEN st
     ELSE IF gkProjectHash = 0 THEN st1
     ELSE addSessionToProject(st1,
            [gkSessionId |-> sid,
             prompt |-> IF mainIdx > 0 THEN updated.agents[mainIdx].prompt ELSE 0,
             activePlan |-> Or0(updated.activePlan, session.activePlan),
             startTime |-> Or0(updated.initTimestamp, session.initTimestamp),
             ended |-> TRUE])

\* ------------------------------------------------ gk-session-init.cjs
\* What a hook run reports: its exit code, the gkSessionId it names and
\* whether it announced a resume.
Out(exit, id, isResume) == [exit |-> exit, gkSessionId |-> id, isResume |-> isResume]

\* A catch block that passes the failure on to the caller.
ExitFailure == 0 + 1

\* The exit code of process.exit(0) on the normal paths and in the catch block.
ExitNormal == 0
ExitCaught == 0

\* The parent session of a sub-agent, as both hooks look it up: by
\* GK_PARENT_SESSION_ID first, then by GEMINI_PARENT_SESSION_ID.
\* [session, gkSessionId]; session.exists = FALSE when it is not found.
FindParent(st, in) ==
  LET direct == IF in.gkParent # None THEN getSession(st, in.gkParent) ELSE NoFile
      byGemini == IF ~direct.exists /\ in.geminiParent # None
                  THEN findSessionByGeminiId(st, in.geminiParent) ELSE None
  IN IF direct.exists THEN [session |-> direct, gkSessionId |-> in.gkParent]
     ELSE IF byGemini # None
     THEN [session |-> st.S[byGemini], gkSessionId |-> st.S[byGemini].gkSessionId]
     ELSE [session |-> NoFile, gkSessionId |-> in.gkParent]

\* A sub-agent branch that leaves everything to the main-agent path.
InitSubAgentSkipped(st, in) == [st |-> st, done |-> FALSE]

\* main, lines 211-290: the sub-agent branch. [st, done]: done = FALSE is the
\* fall through of BeforeModel for a registered sub-agent.
InitSubAgent(st, in) ==
  LET parentSession == FindParent(st, in).session
      parentGkSessionId == FindParent(st, in).gkSessionId
      existingAgents == parentSession.agents
      alreadyExists == \E i \in 1..Len(existingAgents) :
                         /\ existingAgents[i].geminiSessionId = in.G
                         /\ existingAgents[i].agentRole # "main"
      preGenExists == /\ in.preGen # None
                      /\ \E i \in 1..Len(existingAgents) :
                           existingAgents[i].gkSessionId = in.preGen
      generated == in.preGen = None
      subAgentGkSessionId == IF generated THEN <<"gk", st.N + 1>> ELSE in.preGen
      st0 == IF generated THEN [st EXCEPT !.N = @ + 1] ELSE st
      e == readEnv(st.E)
  IN IF parentSession.exists /\ parentGkSessionId # None
     THEN IF alreadyExists \/ preGenExists
          THEN [st |-> IF preGenExists /\ ~alreadyExists
                       THEN updateAgentGeminiSession(st, parentGkSessionId, in.preGen, in.G)
                       ELSE st,
                done |-> in.event # "BeforeModel"]
          ELSE [st |-> addAgent(st0, parentGkSessionId,
                         [gkSessionId |-> subAgentGkSessionId,
                          geminiSessionId |-> in.G,
                          geminiProjectHash |->
                            Or0(e.GEMINI_PROJECT_HASH, parentSession.geminiProjectHash),
                          parentGkSessionId |-> parentGkSessionId,
                          agentRole |-> in.role,
                          prompt |-> in.agentPrompt]),
                done |-> TRUE]
     ELSE [st |-> st, done |-> TRUE]

\* main, lines 476-483: the main agent's entry in its own session
MainAgentData(gkSessionId, g) ==
  [gkSessionId |-> gkSessionId, geminiSessionId |-> g, geminiProjectHash |-> 0,
   parentGkSessionId |-> None, agentRole |-> "main", prompt |-> 0]

\* main, lines 393-492: first run of a main agent.
InitFirstRun(st, in) ==
  LET r == initializeGeminiSession(st, in.G,
             [activePlan |-> 0, suggestedPlan |-> in.branchPlan, planDateFormat |-> 1])
      st1 == addAgent(r.st, r.gkSessionId, MainAgentData(r.gkSessionId, in.G))
  IN [st |-> st1, out |-> Out(ExitNormal, r.gkSessionId, r.isResume)]

\* main, lines 372-391: the env written when SessionStart finds the session
HookResumeEnv(st, existingSession, g) ==
  [gkSessionId |-> existingSession.gkSessionId,
   gkProjectHash |-> existingSession.gkProjectHash,
   projectDir |-> existingSession.projectDir,
   geminiSessionId |-> g,
   geminiProjectHash |->
     Or0(existingSession.geminiProjectHash, readEnv(st.E).GEMINI_PROJECT_HASH),
   activePlan |-> existingSession.activePlan,
   suggestedPlan |-> existingSession.suggestedPlan,
   planDateFormat |-> existingSession.planDateFormat]

\* main, lines 296-391: the main-agent path up to the resume handling, then
\* the first run.
InitMainAgent(st, in) ==
  LET existingSessionPath == findSessionByGeminiId(st, in.G)
      existingSession == IF existingSessionPath # None THEN st.S[existingSessionPath]
                         ELSE NoFile
      existingGkSessionId == existingSession.gkSessionId
      firstUserPrompt == IF in.event = "BeforeAgent" THEN in.prompt ELSE 0
      st1 == IF /\ in.event = "BeforeAgent"
                /\ existingSession.exists /\ existingGkSessionId # None
                /\ firstUserPrompt # 0
             THEN updateAgentPrompt(st, existingGkSessionId, existingGkSessionId,
                                    firstUserPrompt)
             ELSE st
      quiet == Out(ExitNormal, None, FALSE)
  IN IF in.event = "BeforeAgent" /\ existingSession.exists /\ existingSession.initialized
     THEN [st |-> st1, out |-> quiet]
     ELSE IF in.event = "BeforeModel"
     THEN IF in.sub /\ in.gkParent # None /\ in.hash # 0
          THEN LET st2 == captureAgentProjectHash(st1, in.gkParent, in.G, in.hash)
                   e2 == readEnv(st2.E)
               IN [st |-> IF e2.GEMINI_PROJECT_HASH = 0
                          THEN updateEnv(st2, KeepEnv(e2, in.hash)) ELSE st2,
                   out |-> quiet]
          ELSE IF ~existingSession.exists \/ ~existingSession.initialized
          THEN [st |-> st1, out |-> quiet]
          ELSE IF /\ existingSession.geminiProjectHash # 0
                  /\ existingSession.geminiTempDir # 0
                  /\ existingSession.capturedAt
          THEN [st |-> st1, out |-> quiet]
          ELSE IF in.hash # 0 \/ in.tempDir # 0
          THEN [st |-> captureGeminiProjectHash(st1, existingGkSessionId,
                                                in.hash, in.tempDir),
                out |-> quiet]
          ELSE [st |-> st1, out |-> quiet]
     ELSE IF existingSession.exists /\ existingSession.initialized
     THEN IF in.event = "SessionStart"
          THEN [st |-> updateEnv(st1, HookResumeEnv(st, existingSession, in.G)),
                out |-> Out(ExitNormal, existingGkSessionId, TRUE)]
          ELSE [st |-> st1, out |-> quiet]
     ELSE InitFirstRun(st1, in)

\* main of gk-session-init.cjs: [st, out]. A stdin that does not parse throws
\* inside the try block and ends in the catch block.
SessionInitMain(st, in) ==
  IF in.stdin = "malformed"
  THEN [st |-> st, out |-> Out(ExitCaught, None, FALSE)]
  ELSE IF in.sub /\ (in.gkParent # None \/ in.geminiParent # None)
  THEN LET r == InitSubAgent(st, in)
       IN IF r.done THEN [st |-> r.st, out |-> Out(ExitNormal, None, FALSE)]
          ELSE InitMainAgent(r.st, in)
  ELSE InitMainAgent(st, in)

\* -------------------------------------------------- gk-session-end.cjs
Absent == -1

\* determineSuccess: exit_code decides when it is a number, else exit_reason.
determineSuccess(in) ==
  IF in.exitCode # Absent THEN in.exitCode = 0 ELSE ~in.failReason

EndResult(in) ==
  [status |-> IF determineSuccess(in) THEN "completed" ELSE "failed",
   exitCode |-> IF in.exitCode # Absent THEN in.exitCode
                ELSE IF determineSuccess(in) THEN 0 ELSE 1]

\* A sub-agent branch that ends the parent's session as a main agent's
\* SessionEnd does.
EndSubAgentAsSession(st, in) ==
  LET parentSession == FindParent(st, in).session
      parentGkSessionId == FindParent(st, in).gkSessionId
      idx == IndexByGemini(parentSession.agents, in.G)
  IN IF parentSession.exists /\ parentGkSessionId # None /\ idx > 0
     THEN endSession(st, parentGkSessionId, EndResult(in))
     ELSE st

\* main, lines 120-163: a sub-agent ends inside its parent's session.
EndSubAgent(st, in) ==
  LET parentSession == FindParent(st, in).session
      parentGkSessionId == FindParent(st, in).gkSessionId
      idx == IndexByGemini(parentSession.agents, in.G)
  IN IF parentSession.exists /\ parentGkSessionId # None /\ idx > 0
     THEN endAgent(st, parentGkSessionId, parentSession.agents[idx].gkSessionId,
                   EndResult(in))
     ELSE st

\* main, lines 173-194: which session a main-agent SessionEnd names.
\* The id of the session file, None when no session is found.
EndLookup(st, in) ==
  LET fromEnv == readEnv(st.E).ACTIVE_GK_SESSION_ID
      gkSessionId == OrId(in.gkPayload, fromEnv)
      direct == IF gkSessionId # None THEN getSession(st, gkSessionId) ELSE NoFile
      byGemini == IF ~direct.exists /\ in.G # None
                  THEN findSessionByGeminiId(st, in.G) ELSE None
  IN IF direct.exists THEN gkSessionId
     ELSE IF byGemini # None THEN st.S[byGemini].gkSessionId
     ELSE None

\* main of gk-session-end.cjs: [st, out]
SessionEndMain(st, in) ==
  IF in.stdin = "malformed"
  THEN [st |-> st, out |-> Out(ExitCaught, None, FALSE)]
  ELSE IF in.event # "SessionEnd"
  THEN [st |-> st, out |-> Out(ExitNormal, None, FALSE)]
  ELSE IF in.sub /\ (in.geminiParent # None \/ in.gkParent # None)
  THEN [st |-> EndSubAgent(st, in), out |-> Out(ExitNormal, None, FALSE)]
  ELSE LET gkSessionId == EndLookup(st, in)
       IN IF gkSessionId = None
          THEN [st |-> st, out |-> Out(ExitNormal, None, FALSE)]
          ELSE [st |-> endSession(st, gkSessionId, EndResult(in)),
                out |-> Out(ExitNormal, gkSessionId, FALSE)]

\* ------------------------------------------- dev-rules reminder hook
\* writeSessionState: merge into the session file, or create it.
writeSessionState(st, id, state) ==
  LET existing == getSession(st, id)
  IN IF id = None THEN st
     ELSE IF existing.exists
     THEN saveSession(st, id,
            [f \in DOMAIN existing |->
               IF f \in DOMAIN state THEN state[f] ELSE existing[f]])
     ELSE saveSession(st, id,
            [f \in DOMAIN NoFile |->
               IF f \in DOMAIN state THEN state[f] ELSE NoFile[f]])

\* markReminderInjected: nothing for a sub-agent
markReminderInjected(st, id, isSubAgent) ==
  IF id = None \/ isSubAgent THEN st
  ELSE writeSessionState(st, id, [lastReminder |-> TRUE])

\* The chat file of ~/.gemini/tmp/{projectHash}/chats whose name holds the
\* first eight characters of the id: there is none, or one of its last five
\* user messages holds the marker, or none of them does.
ChatFiles == {"none", "marker", "nomarker"}

\* wasRecentlyInjectedViaChatFiles: "true", "false" or "null"
wasRecentlyInjectedViaChatFiles(sessionId, projectHash, chat) ==
  IF sessionId = None \/ projectHash = 0 \/ chat = "none" THEN "null"
  ELSE IF chat = "marker" THEN "true" ELSE "false"

\* wasRecentlyInjected, as main tests it: the chat files are consulted when the
\* session state has a projectHash; otherwise null is returned and nothing
\* reads lastReminderTimestamp
wasRecentlyInjected(st, sessionId, chat) ==
  LET state == getSession(st, sessionId)
  IN /\ sessionId # None
     /\ state.exists /\ state.projectHash # 0
     /\ wasRecentlyInjectedViaChatFiles(sessionId, state.projectHash, chat) = "true"

\* main of the dev-rules reminder hook: [st, out, context], context telling
\* whether hookSpecificOutput.additionalContext was printed
DevRulesMain(st, in) ==
  IF in.stdin = "empty"
  THEN [st |-> st, out |-> Out(ExitNormal, None, FALSE), context |-> FALSE]
  ELSE IF in.stdin = "malformed"
  THEN [st |-> st, out |-> Out(ExitCaught, None, FALSE), context |-> FALSE]
  ELSE IF wasRecentlyInjected(st, readEnv(st.E).ACTIVE_GK_SESSION_ID, in.chat)
  THEN [st |-> st, out |-> Out(ExitNormal, None, FALSE), context |-> FALSE]
  ELSE [st |-> markReminderInjected(st, readEnv(st.E).ACTIVE_GK_SESSION_ID, in.sub),
        out |-> Out(ExitNormal, None, FALSE), context |-> TRUE]

\* ------------------------------------------------ gk-discord-notify.cjs
\* x !== false for a config value that is "true", "false" or "unset"
NotFalse(x) == x # "false"

\* main, lines 338-354: the session the notification is about
NotifySession(st, in) ==
  LET gkSessionId == OrId(in.gkPayload, st.E.ACTIVE_GK_SESSION_ID)
      direct == IF gkSessionId # None THEN getSession(st, gkSessionId) ELSE NoFile
      byGemini == IF ~direct.exists /\ in.G # None
                  THEN findSessionByGeminiId(st, in.G) ELSE None
  IN IF direct.exists THEN direct
     ELSE IF byGemini # None THEN st.S[byGemini] ELSE NoFile

\* main, lines 357-369: [isSubAgent, agentRole]
NotifyAgent(st, in) ==
  LET session == NotifySession(st, in)
      idx == IndexByGemini(session.agents, in.G)
      detected == /\ ~in.sub /\ session.exists /\ in.G # None /\ idx > 0
                  /\ session.agents[idx].agentType = "Sub Agent"
  IN [isSubAgent |-> in.sub \/ detected,
      agentRole |-> IF detected THEN session.agents[idx].agentRole ELSE in.role]

\* main, lines 292-315: what happens before the deduplication check
NotifyEarly(in) ==
  IF in.webhook = "unset" THEN "noWebhook"
  ELSE IF in.stdin = "empty" THEN "noStdin"
  ELSE IF in.stdin = "malformed" THEN "caught"
  ELSE IF in.event # "SessionEnd" THEN "notSessionEnd"
  ELSE "dedup"

\* main, lines 318: the id the marker file is named after
DedupeId(st, in) == OrId(in.G, OrId(in.gkPayload, st.E.ACTIVE_GK_SESSION_ID))

\* The decision with notifications.discord.enabled left unread.
NotifyDecideUnchecked(st, in) ==
  LET a == NotifyAgent(st, in)
  IN IF a.isSubAgent
     THEN IF a.agentRole \in in.notifySubAgentRoles THEN "send" ELSE "subSkipped"
     ELSE IF NotFalse(in.notifyMainAgent) THEN "send" ELSE "mainSkipped"

\* main, lines 324-383: what happens once the deduplication check has passed
NotifyDecide(st, in) ==
  LET a == NotifyAgent(st, in)
  IN IF ~NotFalse(in.enabled) THEN "disabled"
     ELSE IF a.isSubAgent
     THEN IF a.agentRole \in in.notifySubAgentRoles THEN "send" ELSE "subSkipped"
     ELSE IF NotFalse(in.notifyMainAgent) THEN "send" ELSE "mainSkipped"

\* sendDiscordEmbed: a POST goes out unless new URL(webhookUrl) throws
Posts(in) == in.webhook = "valid"

\* main of gk-discord-notify.cjs with the marker file's answer given:
\* [path, posted, marked, exit]
NotifyMain(st, in, alreadyNotified) ==
  LET early == NotifyEarly(in)
      path == IF early # "dedup" THEN early
              ELSE IF alreadyNotified THEN "alreadyNotified"
              ELSE NotifyDecide(st, in)
  IN [path |-> path,
      posted |-> path = "send" /\ Posts(in),
      marked |-> path = "send" /\ DedupeId(st, in) # None,
      exit |-> IF path = "caught" \/ (path = "send" /\ (~Posts(in) \/ in.delivery # "ok"))
               THEN ExitCaught ELSE ExitNormal]

\* ---------------------------------------------------- the state machine
St == [S |-> sessions, P |-> project, E |-> env, N |-> nextId]

StdinKinds == {"ok", "empty", "malformed"}
InitEvents == {"SessionStart", "BeforeAgent", "BeforeModel"}
EndEvents == {"SessionEnd", "AfterAgent"}
ParentGkChoices == {None, <<"gk", 1>>}
ParentGeminiChoices == {None, <<"gem", 1>>}

NotSpawned ==
  [spawned |-> FALSE, role |-> "", gkParent |-> None, geminiParent |-> None,
   preGen |-> None]

SubEnvs ==
  [spawned : {TRUE}, role : RoleEnv, gkParent : ParentGkChoices,
   geminiParent : ParentGeminiChoices, preGen : {None, PreGenId}]

\* the processes whose hooks can run
Procs == GeminiIds \cup {p \in SubIds : procEnv[p].spawned}

\* process.env.GEMINI_AGENT_ROLE || 'main'
agentRole(roleEnv) == IF roleEnv = "" THEN "main" ELSE roleEnv

\* What a hook of process p reads from its environment and from a payload with
\* the given fields; an empty stdin is the payload {}.
HookInput(p, stdin, event, defaultEvent, payload) ==
  LET pe == IF p \in SubIds THEN procEnv[p] ELSE NotSpawned
      none == stdin # "ok"
  IN [stdin |-> stdin,
      event |-> IF none THEN defaultEvent ELSE event,
      G |-> IF none THEN None ELSE p,
      sub |-> p \in SubIds,
      gkParent |-> pe.gkParent, geminiParent |-> pe.geminiParent,
      roleEnv |-> pe.role, role |-> agentRole(pe.role), preGen |-> pe.preGen,
      agentPrompt |-> 1,
      chat |-> "none",
      prompt |-> IF none THEN 0 ELSE payload.prompt,
      hash |-> IF none THEN 0 ELSE payload.hash,
      tempDir |-> IF none THEN 0 ELSE payload.tempDir,
      branchPlan |-> 0,
      gkPayload |-> IF none THEN None ELSE payload.gkPayload,
      exitCode |-> IF none THEN Absent ELSE payload.exitCode,
      failReason |-> IF none THEN FALSE ELSE payload.failReason]

NoPayload ==
  [prompt |-> 0, hash |-> 0, tempDir |-> 0, gkPayload |-> None, exitCode |-> Absent,
   failReason |-> FALSE]

\* The bounds of the model: ids generated, agents per session.
Within(st) ==
  /\ st.N <= MaxIds
  /\ \A id \in FileIds : Len(st.S[id].agents) <= MaxAgents

Commit(st) ==
  /\ sessions' = st.S
  /\ project' = st.P
  /\ env' = st.E
  /\ nextId' = st.N
  /\ UNCHANGED <<procEnv, race, notify, config, call>>

\* exit_code and exit_reason of a SessionEnd payload
EndResults ==
  {[exitCode |-> 0, failReason |-> FALSE], [exitCode |-> 1, failReason |-> FALSE],
   [exitCode |-> Absent, failReason |-> FALSE], [exitCode |-> Absent, failReason |-> TRUE]}
\* what the system message of a BeforeModel payload yields
ModelPayloads == {[hash |-> 0, tempDir |-> 0], [hash |-> 1, tempDir |-> 1]}
PayloadGkChoices == {None, <<"gk", 1>>}

\* A scenario bounds the hook runs of a specification: the processes whose
\* hooks run and the payloads they are given.
FullScenario ==
  [procs |-> GeminiIds \cup SubIds, stdins |-> StdinKinds, initEvents |-> InitEvents,
   prompts |-> Values, models |-> ModelPayloads, endEvents |-> EndEvents,
   gkPayloads |-> PayloadGkChoices, endResults |-> EndResults, subEnvs |-> SubEnvs]

\* A sub-agent process is spawned: its environment is fixed from here on.
SpawnSubAgent(sc) ==
  \E p \in SubIds \cap sc.procs, e \in sc.subEnvs :
    /\ ~procEnv[p].spawned
    /\ procEnv' = [procEnv EXCEPT ![p] = e]
    /\ UNCHANGED <<sessions, project, env, nextId, race, notify, config, call>>

\* The payload fields an event carries: a prompt on BeforeAgent, the system
\* message with the project hash and temp directory on BeforeModel.
InitPayloads(sc, stdin, event) ==
  IF stdin # "ok" THEN {NoPayload}
  ELSE IF event = "BeforeAgent" THEN {[NoPayload EXCEPT !.prompt = v] : v \in sc.prompts}
  ELSE IF event = "BeforeModel"
  THEN {[NoPayload EXCEPT !.hash = m.hash, !.tempDir = m.tempDir] : m \in sc.models}
  ELSE {NoPayload}

EndPayloads(sc, stdin, event) ==
  IF stdin # "ok" \/ event # "SessionEnd" THEN {NoPayload}
  ELSE {[NoPayload EXCEPT !.gkPayload = g, !.exitCode = r.exitCode,
                          !.failReason = r.failReason] :
          g \in sc.gkPayloads, r \in sc.endResults}

\* the events worth telling apart for a stdin: {} has the default event only
EventsOf(stdin, events, defaultEvent) == IF stdin = "ok" THEN events ELSE {defaultEvent}

\* The inputs of the runs of gk-session-init.cjs a scenario allows.
InitInputs(sc) ==
  UNION {UNION {UNION {
    {HookInput(p, stdin, event, "BeforeAgent", payload) :
       payload \in InitPayloads(sc, stdin, event)} :
    event \in EventsOf(stdin, sc.initEvents, "BeforeAgent")} :
    stdin \in sc.stdins} :
    p \in Procs \cap sc.procs}

\* The inputs of the runs of gk-session-end.cjs a scenario allows.
EndInputs(sc) ==
  UNION {UNION {UNION {
    {HookInput(p, stdin, event, "SessionEnd", payload) :
       payload \in EndPayloads(sc, stdin, event)} :
    event \in EventsOf(stdin, sc.endEvents, "SessionEnd")} :
    stdin \in sc.stdins} :
    p \in Procs \cap sc.procs}

\* The inputs of the runs of the dev-rules reminder hook a scenario allows.
RulesInputs(sc) ==
  {[HookInput(p, stdin, "BeforeAgent", "BeforeAgent", NoPayload) EXCEPT !.chat = c] :
     p \in Procs \cap sc.procs, stdin \in sc.stdins, c \in ChatFiles}

SessionInitHook(sc) ==
  \E in \in InitInputs(sc) :
    LET r == SessionInitMain(St, in)
    IN Within(r.st) /\ Commit(r.st)

SessionEndHook(sc) ==
  \E in \in EndInputs(sc) :
    LET r == SessionEndMain(St, in)
    IN Within(r.st) /\ Commit(r.st)

DevRulesHook(sc) ==
  \E in \in RulesInputs(sc) :
    LET r == DevRulesMain(St, in)
    IN Within(r.st) /\ Commit(r.st)

\* notifications.discord of the loaded config
NotifyConfigs ==
  [enabled : {"true", "false", "unset"}, notifyMainAgent : {"true", "false", "unset"},
   notifySubAgentRoles : SUBSET {"tester"}]
Webhooks == {"unset", "invalid", "valid"}
Deliveries == {"ok", "httpError", "connError"}

\* What the notify hook of process p reads. A sub-agent's hook may run without
\* GEMINI_TYPE and GEMINI_AGENT_ROLE (not inherited): main, lines 361-362.
NotifyInput(p, stdin, event, webhook, cfg, delivery, inherited) ==
  LET hin == HookInput(p, stdin, event, "unknown", NoPayload)
  IN [stdin |-> stdin, event |-> hin.event, G |-> hin.G, gkPayload |-> None,
      sub |-> hin.sub /\ inherited,
      role |-> IF inherited THEN hin.roleEnv ELSE "", webhook |-> webhook,
      enabled |-> cfg.enabled, notifyMainAgent |-> cfg.notifyMainAgent,
      notifySubAgentRoles |-> cfg.notifySubAgentRoles, delivery |-> delivery]

\* The inputs of the runs of gk-discord-notify.cjs by process p: the config
\* and the delivery matter on a SessionEnd with a webhook only.
NotifyInputsOf(p) ==
  {NotifyInput(p, "ok", "SessionEnd", w, cfg, d, h) :
     w \in Webhooks \ {"unset"}, cfg \in NotifyConfigs, d \in Deliveries,
     h \in {TRUE, p \notin SubIds}}
  \cup
  {NotifyInput(p, stdin, event, w,
               [enabled |-> "unset", notifyMainAgent |-> "unset",
                notifySubAgentRoles |-> {}], "ok", TRUE) :
     stdin \in StdinKinds, event \in EndEvents, w \in Webhooks}

\* ------------------------------------- concurrent session-init hook runs
\* Runs of gk-session-init.cjs on SessionStart for one main-agent session id,
\* interleaved one file system call at a time.
MaxRace == 2
RaceProcs == 1..MaxRace
RaceG == <<"gem", 1>>

\* A run's position and what it holds in memory: the session it saves (sid,
\* data), where its open descriptor on the temp file points (fd), where it
\* goes on after the rename (next), the project object it saves (pdata) and
\* where it goes on after that write (pnext).
RaceStart ==
  [pc |-> "find", sid |-> None, data |-> NoFile, fd |-> "none", next |-> "done",
   pdata |-> NoProject, pnext |-> "done"]

RaceInit ==
  [proc |-> [p \in RaceProcs |-> RaceStart], temp |-> [id \in FileIds |-> NoFile]]

\* the project file just after fs.writeFileSync has opened it: truncated
TornProject == [NoProject EXCEPT !.exists = TRUE, !.torn = TRUE]

\* A write at offset 0 into a file that holds old already: the file ends as
\* the new document unless the new one is shorter, which leaves the tail of
\* old behind it. A document with fewer entries is the shorter one.
Overwrite(oldEmpty, oldSize, newSize, new, torn) ==
  IF oldEmpty \/ newSize >= oldSize THEN new ELSE torn

RaceGoto(p, pc) == [race EXCEPT !.proc[p].pc = pc]

\* main, lines 296-304 and 372-391: the hook looks for the session of G; on
\* SessionStart an initialized one is resumed: .env is rewritten and the run ends.
RaceFind(p) ==
  LET x == findSessionByGeminiId(St, RaceG)
  IN /\ race.proc[p].pc = "find"
     /\ IF x # None /\ sessions[x].initialized
        THEN /\ env' = updateEnv(St, HookResumeEnv(St, sessions[x], RaceG)).E
             /\ race' = RaceGoto(p, "done")
        ELSE /\ race' = RaceGoto(p, "check")
             /\ UNCHANGED env
     /\ UNCHANGED <<sessions, project, nextId, procEnv, notify, config, call>>

\* initializeGeminiSession, lines 986-1014: the check for an existing session
RaceCheck(p) ==
  LET x == findSessionByGeminiId(St, RaceG)
  IN /\ race.proc[p].pc = "check"
     /\ IF x # None
        THEN /\ env' = updateEnv(St, ResumeEnv(St, sessions[x], RaceG)).E
             /\ race' = [race EXCEPT !.proc[p].pc = "addAgent",
                                     !.proc[p].sid = sessions[x].gkSessionId]
        ELSE /\ race' = RaceGoto(p, "doubleCheck")
             /\ UNCHANGED env
     /\ UNCHANGED <<sessions, project, nextId, procEnv, notify, config, call>>

\* initializeGeminiSession, lines 1016-1080: the double-check, and the new
\* session object when it finds nothing
RaceDoubleCheck(p) ==
  LET x == findSessionByGeminiId(St, RaceG)
      id == <<"gk", nextId + 1>>
      opts == [activePlan |-> 0, suggestedPlan |-> 0, planDateFormat |-> 1]
  IN /\ race.proc[p].pc = "doubleCheck"
     /\ IF x # None
        THEN /\ env' = updateEnv(St, ResumeEnv(St, sessions[x], RaceG)).E
             /\ race' = [race EXCEPT !.proc[p].pc = "addAgent",
                                     !.proc[p].sid = sessions[x].gkSessionId]
             /\ UNCHANGED nextId
        ELSE /\ nextId < MaxIds
             /\ nextId' = nextId + 1
             /\ race' = [race EXCEPT
                  !.proc[p].pc = "open", !.proc[p].sid = id,
                  !.proc[p].data = NewSession(id, RaceG, nextId + 1, opts),
                  !.proc[p].next = "ensureProject"]
             /\ UNCHANGED env
     /\ UNCHANGED <<sessions, project, procEnv, notify, config, call>>

\* saveSession, line 589: fs.writeFileSync opens `${sessionPath}.tmp`, which
\* creates it or truncates the one another writer of the session has open
RaceOpenTemp(p) ==
  LET me == race.proc[p]
  IN /\ me.pc = "open"
     /\ race' = [race EXCEPT !.proc[p].pc = "write", !.proc[p].fd = "temp",
                             !.temp[me.sid] = CorruptFile]
     /\ UNCHANGED <<sessions, project, env, nextId, procEnv, notify, config, call>>

\* saveSession, line 589: fs.writeFileSync writes the document through its
\* descriptor: into the temp file, or into the session file itself when
\* another writer has renamed the temp file in the meantime
RaceWriteTemp(p) ==
  LET me == race.proc[p]
      doc == [me.data EXCEPT !.exists = TRUE, !.corrupt = FALSE]
      Written(old) == Overwrite(old.corrupt, Len(old.agents), Len(doc.agents),
                                doc, CorruptFile)
  IN /\ me.pc = "write"
     /\ race' = [race EXCEPT
          !.proc[p].pc = "rename", !.proc[p].fd = "none",
          !.temp[me.sid] = IF me.fd = "temp" THEN Written(@) ELSE @]
     /\ sessions' = IF me.fd = "final"
                    THEN [sessions EXCEPT ![me.sid] = Written(@)]
                    ELSE sessions
     /\ UNCHANGED <<project, env, nextId, procEnv, notify, config, call>>

\* saveSession, lines 590-595: fs.renameSync puts the temp file, whatever it
\* holds, at the session path; it throws when another writer has renamed the
\* temp file away, and saveSession returns false
RaceRename(p) ==
  LET me == race.proc[p]
      Moved(q) == q # p /\ race.proc[q].sid = me.sid
      there == race.temp[me.sid].exists
  IN /\ me.pc = "rename"
     /\ sessions' = IF there THEN [sessions EXCEPT ![me.sid] = race.temp[me.sid]]
                    ELSE sessions
     /\ race' = [race EXCEPT
          !.temp[me.sid] = NoFile,
          !.proc = [q \in RaceProcs |->
             IF q = p THEN [me EXCEPT !.pc = me.next]
             ELSE IF there /\ Moved(q) /\ race.proc[q].fd = "temp"
             THEN [race.proc[q] EXCEPT !.fd = "final"]
             ELSE IF there /\ Moved(q) /\ race.proc[q].fd = "final"
             THEN [race.proc[q] EXCEPT !.fd = "unlinked"]
             ELSE race.proc[q]]]
     /\ UNCHANGED <<project, env, nextId, procEnv, notify, config, call>>

\* ensureProject, lines 882-903, as initializeGeminiSession calls it
RaceEnsureProject(p) ==
  /\ race.proc[p].pc = "ensureProject"
  /\ race' = IF getProject(St, 1).exists THEN RaceGoto(p, "addSession")
             ELSE [race EXCEPT !.proc[p].pc = "truncate",
                               !.proc[p].pdata = [NoProject EXCEPT !.exists = TRUE],
                               !.proc[p].pnext = "addSession"]
  /\ UNCHANGED <<sessions, project, env, nextId, procEnv, notify, config, call>>

\* addSessionToProject, lines 912-949: ensureProject again, then the summary
\* is merged into the project object read (or just created)
RaceAddSession(p) ==
  LET me == race.proc[p]
      read == getProject(St, 1)
  IN /\ me.pc = "addSession"
     /\ race' = IF read.exists
                THEN [race EXCEPT
                       !.proc[p].pc = "truncate",
                       !.proc[p].pdata = MergeSummary(read, NewSummary(me.data), nextId),
                       !.proc[p].pnext = "createEnv"]
                ELSE [race EXCEPT
                       !.proc[p].pc = "truncate",
                       !.proc[p].pdata = [NoProject EXCEPT !.exists = TRUE],
                       !.proc[p].pnext = "merge"]
     /\ UNCHANGED <<sessions, project, env, nextId, procEnv, notify, config, call>>

\* saveProject, line 868: fs.writeFileSync opens the project file itself,
\* which truncates it
RaceTruncateProject(p) ==
  /\ race.proc[p].pc = "truncate"
  /\ project' = TornProject
  /\ race' = RaceGoto(p, "writeProject")
  /\ UNCHANGED <<sessions, env, nextId, procEnv, notify, config, call>>

\* saveProject, line 868: fs.writeFileSync writes the document
RaceWriteProject(p) ==
  LET me == race.proc[p]
  IN /\ me.pc = "writeProject"
     /\ project' = Overwrite(project.torn, Len(project.sessions),
                             Len(me.pdata.sessions), me.pdata, TornProject)
     /\ race' = IF me.pnext = "merge"
                THEN [race EXCEPT
                       !.proc[p].pc = "truncate",
                       !.proc[p].pdata = MergeSummary(@, NewSummary(me.data), nextId),
                       !.proc[p].pnext = "createEnv"]
                ELSE RaceGoto(p, me.pnext)
     /\ UNCHANGED <<sessions, env, nextId, procEnv, notify, config, call>>

\* initializeGeminiSession, lines 1094-1106: .env names the new session
RaceCreateEnv(p) ==
  /\ race.proc[p].pc = "createEnv"
  /\ env' = updateEnv(St, CreateEnv(St, race.proc[p].data)).E
  /\ race' = RaceGoto(p, "addAgent")
  /\ UNCHANGED <<sessions, project, nextId, procEnv, notify, config, call>>

\* main, lines 476-483: addAgent reads the session and saves it with the main
\* agent's entry; without a readable session it returns false and the run ends
RaceAddAgent(p) ==
  LET me == race.proc[p]
      session == getSession(St, me.sid)
  IN /\ me.pc = "addAgent"
     /\ race' = IF session.exists
                THEN [race EXCEPT
                       !.proc[p].pc = "open",
                       !.proc[p].data = WithAgent(session, me.sid,
                                                  MainAgentData(me.sid, RaceG)),
                       !.proc[p].next = "done"]
                ELSE RaceGoto(p, "done")
     /\ UNCHANGED <<sessions, project, env, nextId, procEnv, notify, config, call>>

\* ---------------------------------------- concurrent notify hook runs
\* Runs of gk-discord-notify.cjs on SessionEnd, interleaved: the marker check,
\* the decision, the marker write and the POST are separate steps, and time
\* passes between them.
MaxNotify == 2
NotifyProcs == 1..MaxNotify
\* wasAlreadyNotified: a marker younger than this many ms suppresses the POST
DedupWindowMs == 60000
TickMs == 30000
MaxClock == 60000
NoMarker == 0 - 1
MarkerIds == GeminiIds \cup SubIds

\* notifications.discord of the config file during the interleaved runs
NotifyCfgChoices ==
  {cfg \in NotifyConfigs : cfg.enabled = "unset" /\ cfg.notifyMainAgent # "true"}

NotifyInit(cfg) ==
  [proc |-> [p \in NotifyProcs |-> [pc |-> "start", who |-> None]],
   marker |-> [id \in MarkerIds |-> NoMarker],
   clock |-> 0, posts |-> {}, cfg |-> cfg]

\* wasAlreadyNotified: the marker file of the id exists and is younger than
\* the window
wasAlreadyNotified(marker, id, now) ==
  /\ id \in MarkerIds
  /\ marker[id] # NoMarker
  /\ now - marker[id] < DedupWindowMs

\* what the run for agent who reads, with a webhook configured
NotifyRunInput(who) ==
  NotifyInput(who, "ok", "SessionEnd", "valid", notify.cfg, "ok", TRUE)

\* main, lines 289-322: a run starts for the SessionEnd of an agent and
\* checks the marker of its session id
NotifyCheck(p, sc) ==
  \E who \in Procs \cap sc.procs :
    LET in == NotifyRunInput(who)
        skip == \/ NotifyEarly(in) # "dedup"
                \/ wasAlreadyNotified(notify.marker, DedupeId(St, in), notify.clock)
    IN /\ notify.proc[p].pc = "start"
       /\ notify' = [notify EXCEPT !.proc[p] =
                       [pc |-> IF skip THEN "done" ELSE "decide", who |-> who]]
       /\ UNCHANGED <<sessions, project, env, nextId, procEnv, race, config, call>>

\* main, lines 324-383: the config is loaded, the session looked up and the
\* decision taken
NotifyLoad(p) ==
  LET in == NotifyRunInput(notify.proc[p].who)
  IN /\ notify.proc[p].pc = "decide"
     /\ notify' = [notify EXCEPT !.proc[p].pc =
                     IF NotifyDecide(St, in) = "send" THEN "mark" ELSE "done"]
     /\ UNCHANGED <<sessions, project, env, nextId, procEnv, race, config, call>>

\* markAsNotified: the marker file is written, its mtime is now
NotifyMark(p) ==
  LET id == DedupeId(St, NotifyRunInput(notify.proc[p].who))
  IN /\ notify.proc[p].pc = "mark"
     /\ notify' = [notify EXCEPT
          !.proc[p].pc = "send",
          !.marker = IF id \in MarkerIds THEN [@ EXCEPT ![id] = notify.clock] ELSE @]
     /\ UNCHANGED <<sessions, project, env, nextId, procEnv, race, config, call>>

\* sendDiscordEmbed: the POST goes out
NotifySend(p) ==
  LET in == NotifyRunInput(notify.proc[p].who)
  IN /\ notify.proc[p].pc = "send"
     /\ notify' = [notify EXCEPT
          !.proc[p].pc = "done",
          !.posts = IF Posts(in)
                    THEN @ \cup {[id |-> DedupeId(St, in), at |-> notify.clock, by |-> p]}
                    ELSE @]
     /\ UNCHANGED <<sessions, project, env, nextId, procEnv, race, config, call>>

\* time passes
Tick ==
  /\ notify.clock + TickMs <= MaxClock
  /\ notify' = [notify EXCEPT !.clock = @ + TickMs]
  /\ UNCHANGED <<sessions, project, env, nextId, procEnv, race, config, call>>

\* ------------------------------------ the POST of a notify hook run
\* What the webhook endpoint does with a request: the three deliveries that
\* settle the promise of sendDiscordEmbed, or no response at all on an open
\* connection.
Endpoints == Deliveries \cup {"noResponse"}

\* No request of a run is under way.
NoRequest == [fn |-> "none", endpoint |-> "ok", settled |-> "none"]

\* sendDiscordEmbed, lines 94-120: the request is written and ended, and main
\* awaits the promise; the request has no timeout.
NotifyRequest(p) ==
  LET in == NotifyRunInput(notify.proc[p].who)
  IN \E e \in Endpoints :
       /\ notify.proc[p].pc = "send"
       /\ notify' = [notify EXCEPT
            !.proc[p].pc = "await",
            !.posts = @ \cup {[id |-> DedupeId(St, in), at |-> notify.clock, by |-> p]}]
       /\ call' = [call EXCEPT ![p] =
                     [fn |-> "sendDiscordEmbed", endpoint |-> e, settled |-> "pending"]]
       /\ UNCHANGED <<sessions, project, env, nextId, procEnv, race, config>>

\* The response callback (lines 110-116) or the 'error' handler (line 118)
\* settles the promise, and main exits with 0 after the await (line 391) or
\* from its catch block (lines 392-396). Neither runs while the endpoint is
\* silent.
NotifyRespond(p) ==
  /\ notify.proc[p].pc = "await"
  /\ call[p].endpoint # "noResponse"
  /\ notify' = [notify EXCEPT !.proc[p].pc = "done"]
  /\ call' = [call EXCEPT ![p].settled =
                IF call[p].endpoint = "ok" THEN "resolved" ELSE "rejected"]
  /\ UNCHANGED <<sessions, project, env, nextId, procEnv, race, config>>

\* --------------------------------------------------- gk-config-utils.cjs
\* A JSON document is a function from key paths to leaves: "absent" for a key
\* that is not there, "{}" for an object, "null", strings, and arrays written
\* "[...]". "../out" is a path that resolves outside the project root.
MaxKeys == 2
ConfigPaths ==
  {<<"plan">>, <<"plan", "dateFormat">>, <<"plan", "reportsDir">>,
   <<"plan", "resolution">>, <<"plan", "resolution", "branchPattern">>,
   <<"paths">>, <<"paths", "docs">>, <<"paths", "plans">>,
   <<"trust">>, <<"trust", "enabled">>}

EmptyDoc == [p \in ConfigPaths |-> "absent"]

DEFAULT_CONFIG ==
  [p \in ConfigPaths |->
     CASE p = <<"plan">> -> "{}"
       [] p = <<"plan", "dateFormat">> -> "YYMMDD-HHmm"
       [] p = <<"plan", "reportsDir">> -> "reports"
       [] p = <<"plan", "resolution">> -> "{}"
       [] p = <<"plan", "resolution", "branchPattern">> -> "(?:feat|fix|chore|refactor|docs)/(?:[^/]+/)?(.+)"
       [] p = <<"paths">> -> "{}"
       [] p = <<"paths", "docs">> -> "docs"
       [] p = <<"paths", "plans">> -> "plans"
       [] p = <<"trust">> -> "{}"
       [] p = <<"trust", "enabled">> -> "false"
       [] OTHER -> "absent"]

\* !value for a leaf
Falsy(v) == v \in {"absent", "null", "", "false"}
\* p lies below the object at path at (<<>> is the root)
Under(p, at) == Len(p) > Len(at) /\ SubSeq(p, 1, Len(at)) = at

\* The keys a config file may set to a primitive, with the values tried.
KeyChoices ==
  {<<<<"plan">>, "null">>,
   <<<<"plan", "dateFormat">>, "a">>, <<<<"plan", "dateFormat">>, "b">>,
   <<<<"plan", "reportsDir">>, "a">>, <<<<"plan", "reportsDir">>, "../out">>,
   <<<<"plan", "resolution">>, "a">>,
   <<<<"plan", "resolution", "branchPattern">>, "a">>,
   <<<<"paths", "docs">>, "a">>, <<<<"paths", "docs">>, "b">>,
   <<<<"paths", "docs">>, "../out">>, <<<<"paths", "docs">>, "">>,
   <<<<"paths", "docs">>, "../proj/a">>,
   <<<<"paths", "plans">>, "/etc">>, <<<<"paths", "plans">>, "[../out]">>,
   <<<<"trust", "enabled">>, "true">>}

\* The document with the given keys set; the objects around them are implied.
DocOf(keys) ==
  [p \in ConfigPaths |->
     IF \E k \in keys : k[1] = p THEN (CHOOSE k \in keys : k[1] = p)[2]
     ELSE IF \E k \in keys : Under(k[1], p) THEN "{}"
     ELSE "absent"]

\* What loadConfigFromPath returns: null for a missing file or one that does
\* not parse, else the parsed JSON, an object or not.
ConfigFiles ==
  {[kind |-> "null", doc |-> EmptyDoc], [kind |-> "scalar", doc |-> EmptyDoc]}
  \cup
  {[kind |-> "object", doc |-> DocOf(keys)] :
     keys \in {ks \in SUBSET KeyChoices :
                 /\ Cardinality(ks) <= MaxKeys
                 /\ \A k \in ks : \A o \in ks :
                      k # o => k[1] # o[1] /\ ~Under(o[1], k[1])}}

\* deepMerge(target, source) of the objects at path at of two documents:
\* the keys of source at that level override, objects recurse
RECURSIVE deepMerge(_, _, _)
deepMerge(target, source, at) ==
  [p \in ConfigPaths |->
     IF ~Under(p, at) THEN "absent"
     ELSE LET key == SubSeq(p, 1, Len(at) + 1)
          IN IF source[key] = "absent" THEN target[p]
             ELSE IF source[key] # "{}" THEN (IF p = key THEN source[key] ELSE "absent")
             ELSE IF p = key THEN "{}"
             ELSE IF target[key] = "{}" THEN deepMerge(target, source, key)[p]
             ELSE source[p]]

\* deepMerge at the root, with its guards on source and target
deepMergeRoot(target, file) ==
  IF file.kind # "object" THEN target ELSE deepMerge(target, file.doc, <<>>)

\* process.cwd(), as the directories from "/" down
projectRoot == <<"home", "proj">>

\* Array.isArray(value)
IsArray(v) == v \in {"[../out]"}

\* A path string as path.resolve reads it: absolute or not, and its segments.
\* An array is read as a string the way a template literal does: its
\* elements joined with commas.
PathOf(v) ==
  CASE v \in {"../out", "[../out]"} -> [abs |-> FALSE, segs |-> <<"..", "out">>]
    [] v = "../proj/a" -> [abs |-> FALSE, segs |-> <<"..", "proj", "a">>]
    [] v = "/etc" -> [abs |-> TRUE, segs |-> <<"etc">>]
    [] OTHER -> [abs |-> FALSE, segs |-> <<v>>]

\* path.resolve(projectRoot, pathValue): the segments are applied to the root
\* (to "/" for an absolute path), ".." dropping the last directory
RECURSIVE Normalize(_, _)
Normalize(base, segs) ==
  IF segs = <<>> THEN base
  ELSE Normalize(IF Head(segs) # ".." THEN Append(base, Head(segs))
                 ELSE IF base = <<>> THEN base
                 ELSE SubSeq(base, 1, Len(base) - 1),
                 Tail(segs))
resolve(v) == Normalize(IF PathOf(v).abs THEN <<>> ELSE projectRoot, PathOf(v).segs)

\* resolved.startsWith(projectRoot + path.sep) || resolved === projectRoot
InsideRoot(resolved) ==
  \/ resolved = projectRoot
  \/ Len(resolved) > Len(projectRoot) /\ SubSeq(resolved, 1, Len(projectRoot)) = projectRoot

\* sanitizePath(pathValue, projectRoot): a falsy or non-string value is
\* returned as it is, a string resolving outside the root gives null
sanitizePath(v) ==
  IF Falsy(v) \/ IsArray(v) \/ v = "{}" THEN v
  ELSE IF ~InsideRoot(resolve(v)) THEN "null"
  ELSE v

\* !sanitizePath(value, projectRoot)
Rejected(v) == Falsy(sanitizePath(v))

\* merged.section || DEFAULT_CONFIG.section
SectionOr(merged, section) ==
  [p \in ConfigPaths |->
     IF p # section /\ ~Under(p, section) THEN "absent"
     ELSE IF Falsy(merged[section]) THEN DEFAULT_CONFIG[p] ELSE merged[p]]

\* the union of documents with disjoint keys
Join(a, b) == [p \in ConfigPaths |-> IF a[p] # "absent" THEN a[p] ELSE b[p]]

sanitizeConfig(cfg) ==
  [p \in ConfigPaths |->
     IF p \in {<<"plan", "reportsDir">>, <<"paths", "docs">>, <<"paths", "plans">>}
     THEN IF Falsy(cfg[SubSeq(p, 1, 1)]) THEN "absent"
          ELSE IF Rejected(cfg[p]) THEN DEFAULT_CONFIG[p] ELSE cfg[p]
     ELSE IF p = <<"plan", "resolution">>
     THEN IF Falsy(cfg[<<"plan">>]) THEN "absent" ELSE "{}"
     ELSE IF Under(p, <<"plan", "resolution">>)
     THEN IF Falsy(cfg[<<"plan">>]) THEN "absent"
          ELSE IF cfg[<<"plan", "resolution">>] = "{}" /\ cfg[p] # "absent"
          THEN cfg[p] ELSE DEFAULT_CONFIG[p]
     ELSE cfg[p]]

\* getDefaultConfig with its default options: plan and paths, no trust
getDefaultConfig ==
  Join(SectionOr(DEFAULT_CONFIG, <<"plan">>), SectionOr(DEFAULT_CONFIG, <<"paths">>))

loadConfig(globalConfig, localConfig) ==
  LET merged == deepMergeRoot(deepMergeRoot(deepMerge(EmptyDoc, DEFAULT_CONFIG, <<>>),
                                            globalConfig), localConfig)
      result == Join(SectionOr(merged, <<"plan">>),
                     Join(SectionOr(merged, <<"paths">>), SectionOr(merged, <<"trust">>)))
  IN IF globalConfig.kind = "null" /\ localConfig.kind = "null"
     THEN getDefaultConfig
     ELSE sanitizeConfig(result)

NoConfig == [kind |-> "null", doc |-> EmptyDoc]
ConfigInit ==
  [globalFile |-> NoConfig, localFile |-> NoConfig, loaded |-> FALSE, result |-> EmptyDoc]

\* loadConfig is called with the config files as they are
LoadConfig ==
  /\ ~config.loaded
  /\ config' = [config EXCEPT !.loaded = TRUE,
                              !.result = loadConfig(config.globalFile, config.localFile)]
  /\ UNCHANGED <<sessions, project, env, nextId, procEnv, race, notify, call>>

\* ------------------------------------------- gk-discord-notify.cjs: loadEnv
MaxLines == 2
EnvVars == {"DISCORD_WEBHOOK_URL", "ACTIVE_GK_SESSION_ID"}

\* The lines of a .env file, trimmed: the key before the first '=' and the
\* text after it. A comment, a blank line and a line without a key have key "".
EnvLines ==
  {[key |-> "DISCORD_WEBHOOK_URL", raw |-> "a"],
   [key |-> "DISCORD_WEBHOOK_URL", raw |-> "'b'"],
   [key |-> "DISCORD_WEBHOOK_URL", raw |-> ""],
   [key |-> "ACTIVE_GK_SESSION_ID", raw |-> "c"],
   [key |-> "", raw |-> "# comment"]}

EnvFiles ==
  {[exists |-> FALSE, lines |-> <<>>]}
  \cup {[exists |-> TRUE, lines |-> l] : l \in UNION {[1..n -> EnvLines] : n \in 0..MaxLines}}

\* process.env: a variable is unset, set to the empty string or set to a value
ProcessEnvs ==
  {[k \in EnvVars |-> IF k = "DISCORD_WEBHOOK_URL" THEN u ELSE i] :
     u \in {"unset", "", "p"}, i \in {"unset", "p"}}

\* loadEnv, lines 65-69: surrounding quotes are removed
Unquote(raw) == IF raw = "'b'" THEN "b" ELSE raw

\* loadEnv, lines 57-75: the lines of one file, in order; a line sets its key
\* unless process.env[key] is truthy
RECURSIVE ReadEnvLines(_, _, _)
ReadEnvLines(e, processEnv, lines) ==
  IF lines = <<>> THEN e
  ELSE LET line == Head(lines)
           sets == line.key # "" /\ processEnv[line.key] \in {"unset", ""}
       IN ReadEnvLines(IF sets THEN [e EXCEPT ![line.key] = Unquote(line.raw)] ELSE e,
                       processEnv, Tail(lines))

\* loadEnv: { ...process.env }, then the notifications .env, then .gemini/.env
loadEnv(processEnv, notificationsFile, geminiFile) ==
  ReadEnvLines(ReadEnvLines(processEnv, processEnv, notificationsFile.lines),
               processEnv, geminiFile.lines)

LoadEnvCalls ==
  {[fn |-> "loadEnv", returned |-> FALSE, processEnv |-> pe,
    notificationsFile |-> nf, geminiFile |-> gf, result |-> pe] :
     pe \in ProcessEnvs, nf \in EnvFiles, gf \in EnvFiles}

LoadEnv ==
  /\ call.fn = "loadEnv" /\ ~call.returned
  /\ call' = [call EXCEPT !.returned = TRUE,
                          !.result = loadEnv(call.processEnv, call.notificationsFile,
                                             call.geminiFile)]
  /\ UNCHANGED <<sessions, project, env, nextId, procEnv, race, notify, config>>

\* ----------------------------------- gk-config-utils.cjs: deepMerge, objects
\* deepMerge on objects with identity: the heap is the sequence of the objects
\* and arrays allocated so far, a value is a primitive, a reference into the
\* heap or undefined. Arrays hold strings.
MaxElems == 1
MergeKeys == {"k", "n"}
Prim(x) == [t |-> "prim", v |-> x, id |-> 0]
Ref(i) == [t |-> "ref", v |-> "", id |-> i]
Undefined == [t |-> "none", v |-> "", id |-> 0]
Obj(fields) == [arr |-> FALSE, fields |-> fields, elems |-> <<>>]
Arr(elems) == [arr |-> TRUE, fields |-> [k \in MergeKeys |-> Undefined], elems |-> elems]

\* line 79: result[key] = [...sourceVal], whatever the target holds
ReplaceWithConcat(targetElems, sourceElems) == targetElems \o sourceElems
ReplaceArray(targetElems, sourceElems) == sourceElems

\* line 71: result = { ...target }, a new object with the target's own keys
\* (an array's keys are its indices, none of MergeKeys)
ShallowCopy(heap, id) ==
  [heap |-> Append(heap, Obj(IF heap[id].arr THEN Arr(<<>>).fields ELSE heap[id].fields)),
   id |-> Len(heap) + 1]

RECURSIVE deepMergeObjects(_, _, _)
RECURSIVE MergeLoop(_, _, _, _, _)
\* lines 72-88: the loop over Object.keys(source); result and source are heap
\* ids, target is the id of the target object, keys are those still to visit
MergeLoop(heap, result, target, source, keys) ==
  IF keys = {} THEN heap
  ELSE
    LET key == CHOOSE k \in keys : TRUE
        sourceVal == heap[source].fields[key]
        targetVal == IF heap[target].arr THEN Undefined ELSE heap[target].fields[key]
        targetElems == IF targetVal.t = "ref" THEN heap[targetVal.id].elems ELSE <<>>
        truthy == targetVal.t = "ref" \/ (targetVal.t = "prim" /\ ~Falsy(targetVal.v))
        after ==
          IF sourceVal.t = "none" \/ heap[source].arr THEN heap
          ELSE IF sourceVal.t = "ref" /\ heap[sourceVal.id].arr
          THEN LET h == Append(heap, Arr(ReplaceArray(targetElems, heap[sourceVal.id].elems)))
               IN [h EXCEPT ![result].fields[key] = Ref(Len(h))]
          ELSE IF sourceVal.t = "ref"
          THEN LET h == IF truthy THEN heap ELSE Append(heap, Obj(Arr(<<>>).fields))
                   r == deepMergeObjects(h, IF truthy THEN targetVal ELSE Ref(Len(h)), sourceVal)
               IN [r.heap EXCEPT ![result].fields[key] = r.val]
          ELSE [heap EXCEPT ![result].fields[key] = sourceVal]
    IN MergeLoop(after, result, target, source, keys \ {key})

\* deepMerge(target, source), lines 67-90: the heap it leaves and the value
\* it returns
deepMergeObjects(heap, target, source) ==
  IF source.t # "ref" THEN [heap |-> heap, val |-> target]
  ELSE IF target.t # "ref" THEN [heap |-> heap, val |-> source]
  ELSE LET copy == ShallowCopy(heap, target.id)
       IN [heap |-> MergeLoop(copy.heap, copy.id, target.id, source.id, MergeKeys),
           val |-> Ref(copy.id)]

\* The arguments tried: heap ids 1 and 2 are the target and source objects,
\* 3 and 4 an object nested in each, 5 and 6 an array of each.
MergeHeaps ==
  LET Arrays == UNION {[1..n -> {"x", "y"}] : n \in 0..MaxElems}
      Inner(p, q) == {[k \in MergeKeys |-> IF k = "k" THEN a ELSE b] :
                        a \in {Undefined, Prim(p)}, b \in {Undefined, Prim(q)}}
      Outer(p, q, o, a) == {[k \in MergeKeys |-> IF k = "k" THEN x ELSE y] :
                        x \in {Undefined, Prim(p), Prim(""), Ref(o), Ref(a)},
                        y \in {Undefined, Prim(q)}}
  IN {<<Obj(t), Obj(s), Obj(tn), Obj(sn), Arr(ta), Arr(sa)>> :
        t \in Outer("a", "b", 3, 5), s \in Outer("c", "d", 4, 6),
        tn \in Inner("a", "b"), sn \in Inner("c", "d"),
        ta \in Arrays \ {<<>>}, sa \in Arrays}

DeepMergeCalls ==
  {[fn |-> "deepMerge", returned |-> FALSE, heap |-> h, target |-> t, source |-> s,
    after |-> h, result |-> Undefined] :
     h \in {g \in MergeHeaps :
              /\ g[1].fields["k"] # Ref(3) => g[3] = Obj(Arr(<<>>).fields)
              /\ g[2].fields["k"] # Ref(4) => g[4] = Obj(Arr(<<>>).fields)
              /\ g[1].fields["k"] # Ref(5) => g[5] = Arr(<<"x">>)
              /\ g[2].fields["k"] # Ref(6) => g[6] = Arr(<<>>)},
     t \in {Ref(1), Prim("a")}, s \in {Ref(2), Prim("null")}}

DeepMerge ==
  /\ call.fn = "deepMerge" /\ ~call.returned
  /\ LET r == deepMergeObjects(call.heap, call.target, call.source)
     IN call' = [call EXCEPT !.returned = TRUE, !.after = r.heap, !.result = r.val]
  /\ UNCHANGED <<sessions, project, env, nextId, procEnv, race, notify, config>>

\* ------------------------------ gk-session-manager.cjs: session ids as text
\* Strings are sequences of characters.
MaxName == 3
MaxPid == 42
DigitChars == <<"0", "1", "2", "3", "4", "5", "6", "7", "8", "9">>
IsDigit(c) == \E i \in 1..10 : DigitChars[i] = c
\* [a-z0-9], over the letters that occur
IsAlnum(c) == IsDigit(c) \/ c \in {"e", "g", "i", "k", "m", "n", "x"}

\* `${pid}` of a non-negative integer
RECURSIVE Decimal(_)
Decimal(n) ==
  IF n < 10 THEN <<DigitChars[n + 1]>>
  ELSE Append(Decimal(n \div 10), DigitChars[(n % 10) + 1])

\* parseInt(digits, 10)
RECURSIVE parseInt(_)
parseInt(ds) ==
  IF ds = <<>> THEN 0
  ELSE parseInt(SubSeq(ds, 1, Len(ds) - 1)) * 10
       + (CHOOSE i \in 0..9 : DigitChars[i + 1] = ds[Len(ds)])

\* 'gemini-'
GeminiPrefix == <<"g", "e", "m", "i", "n", "i", "-">>

\* generateGkSessionId, lines 195-199, for the values Date.now().toString(36)
\* and Math.random().toString(36).substring(2, 6) take
generateGkSessionId(appName, pid, timestamp, random) ==
  appName \o <<"-">> \o Decimal(pid) \o <<"-">> \o timestamp \o <<"-">> \o random

\* parseGkSessionId, lines 206-220: /^(.+)-(\d+)-([a-z0-9]+)-([a-z0-9]{4})$/,
\* the first group greedy. A match is the positions of the three hyphens.
parseGkSessionId(gkSessionId) ==
  LET n == Len(gkSessionId)
      Class(a, b, digitsOnly) ==
        /\ a <= b
        /\ \A x \in a..b : IF digitsOnly THEN IsDigit(gkSessionId[x])
                                         ELSE IsAlnum(gkSessionId[x])
      Matches ==
        {m \in (1..n) \X (1..n) \X (1..n) :
           /\ 1 < m[1] /\ m[1] < m[2] /\ m[2] < m[3]
           /\ \A i \in 1..3 : gkSessionId[m[i]] = "-"
           /\ Class(m[1] + 1, m[2] - 1, TRUE)
           /\ Class(m[2] + 1, m[3] - 1, FALSE)
           /\ n - m[3] = 4 /\ Class(m[3] + 1, n, FALSE)}
  IN IF Matches = {}
     THEN [ok |-> FALSE, appName |-> <<>>, pid |-> 0, timestamp |-> <<>>, random |-> <<>>]
     ELSE LET m == CHOOSE m \in Matches : \A o \in Matches : o[1] <= m[1]
          IN [ok |-> TRUE,
              appName |-> SubSeq(gkSessionId, 1, m[1] - 1),
              pid |-> parseInt(SubSeq(gkSessionId, m[1] + 1, m[2] - 1)),
              timestamp |-> SubSeq(gkSessionId, m[2] + 1, m[3] - 1),
              random |-> SubSeq(gkSessionId, m[3] + 1, n)]

\* getPidFromSessionId, lines 227-230 (-1: null)
getPidFromSessionId(gkSessionId) ==
  IF parseGkSessionId(gkSessionId).ok THEN parseGkSessionId(gkSessionId).pid ELSE 0 - 1

\* detectSessionType, lines 237-241
detectSessionType(gkSessionId) ==
  LET parsed == parseGkSessionId(gkSessionId)
  IN IF ~parsed.ok THEN "null"
     ELSE IF Len(parsed.appName) >= Len(GeminiPrefix)
             /\ SubSeq(parsed.appName, 1, Len(GeminiPrefix)) = GeminiPrefix
     THEN "gemini" ELSE "non-gemini"

\* The ids generated: app names with and without hyphens, digits and the
\* 'gemini-' prefix; the random part is the first four digits after "0." of
\* Math.random() in base 36, fewer when the number has fewer (0.5 is "0.i").
GenerateCalls ==
  LET Names == UNION {[1..n -> {"g", "-", "1"}] : n \in 1..MaxName}
  IN {[fn |-> "generateGkSessionId", returned |-> FALSE, appName |-> a, pid |-> p,
       timestamp |-> t, random |-> r, id |-> <<>>] :
        a \in Names \cup {GeminiPrefix \o x : x \in Names},
        p \in {1, MaxPid},
        t \in {<<"k">>, <<"3", "k">>},
        r \in {<<"x", "7", "x", "7">>, <<"7", "7", "7", "7">>, <<"i">>}}

GenerateId ==
  /\ call.fn = "generateGkSessionId" /\ ~call.returned
  /\ call' = [call EXCEPT !.returned = TRUE,
                          !.id = generateGkSessionId(call.appName, call.pid,
                                                     call.timestamp, call.random)]
  /\ UNCHANGED <<sessions, project, env, nextId, procEnv, race, notify, config>>

\* A session file is left with content that does not parse, as interleaved
\* saveSession calls on one session leave it (SpecRace reaches such a file).
CorruptSessionFile ==
  \E id \in FileIds :
    /\ sessions[id].exists /\ ~sessions[id].corrupt
    /\ sessions' = [sessions EXCEPT ![id] = CorruptFile]
    /\ UNCHANGED <<project, env, nextId, procEnv, race, notify, config, call>>

Init ==
  /\ sessions = [id \in FileIds |-> NoFile]
  /\ project = NoProject
  /\ env = EmptyEnv
  /\ nextId = 0
  /\ procEnv = [p \in SubIds |-> NotSpawned]
  /\ race = RaceInit
  /\ notify = NotifyInit(CHOOSE cfg \in NotifyCfgChoices : TRUE)
  /\ config = ConfigInit
  /\ call = NoCall

\* The sessions of main agents: SessionStart, BeforeAgent, SessionEnd and the
\* reminder, with session files that may not parse.
MainScenario ==
  [FullScenario EXCEPT !.procs = GeminiIds, !.stdins = {"ok"},
                       !.initEvents = {"SessionStart", "BeforeAgent"}]

Next ==
  \/ SessionInitHook(MainScenario)
  \/ SessionEndHook(MainScenario)
  \/ DevRulesHook(MainScenario)
  \/ CorruptSessionFile

Spec == Init /\ [][Next]_vars

\* A main agent and the sub-agents spawned into its session.
SubScenario ==
  [FullScenario EXCEPT !.procs = {<<"gem", 1>>} \cup SubIds, !.stdins = {"ok"}]

NextSub ==
  \/ SpawnSubAgent(SubScenario)
  \/ SessionInitHook(SubScenario)
  \/ SessionEndHook(SubScenario)
  \/ DevRulesHook(SubScenario)

SpecSub == Init /\ [][NextSub]_vars

\* Every kind of stdin for a main agent and a sub-agent, with session files
\* that may not parse; the payloads carry no prompt and no project hash.
ExitScenario ==
  [FullScenario EXCEPT
     !.procs = {<<"gem", 1>>} \cup SubIds,
     !.prompts = {0}, !.models = {[hash |-> 0, tempDir |-> 0]},
     !.gkPayloads = {None},
     !.endResults = {[exitCode |-> Absent, failReason |-> TRUE]},
     !.subEnvs = {e \in SubEnvs : e.role = "tester" /\ e.preGen = None
                                  /\ (e.gkParent = None) # (e.geminiParent = None)}]

NextExit ==
  \/ SpawnSubAgent(ExitScenario)
  \/ SessionInitHook(ExitScenario)
  \/ SessionEndHook(ExitScenario)
  \/ DevRulesHook(ExitScenario)
  \/ CorruptSessionFile

SpecExit == Init /\ [][NextExit]_vars

\* Two runs of the session-init hook for the same session id, step by step.
NextRace ==
  \E p \in RaceProcs :
    \/ RaceFind(p)
    \/ RaceCheck(p)
    \/ RaceDoubleCheck(p)
    \/ RaceOpenTemp(p)
    \/ RaceWriteTemp(p)
    \/ RaceRename(p)
    \/ RaceEnsureProject(p)
    \/ RaceAddSession(p)
    \/ RaceTruncateProject(p)
    \/ RaceWriteProject(p)
    \/ RaceCreateEnv(p)
    \/ RaceAddAgent(p)

SpecRace == Init /\ [][NextRace]_vars

\* A main agent and a sub-agent start their sessions; notify hook runs for
\* their SessionEnd interleave while time passes.
NotifyScenario ==
  [FullScenario EXCEPT
     !.procs = {<<"gem", 1>>} \cup SubIds, !.stdins = {"ok"},
     !.initEvents = {"SessionStart"},
     !.subEnvs = {e \in SubEnvs : e.role = "tester" /\ e.preGen = None
                                  /\ e.gkParent = None /\ e.geminiParent # None}]

InitNotify ==
  /\ sessions = [id \in FileIds |-> NoFile]
  /\ project = NoProject
  /\ env = EmptyEnv
  /\ nextId = 0
  /\ procEnv = [p \in SubIds |-> NotSpawned]
  /\ race = RaceInit
  /\ notify \in {NotifyInit(cfg) : cfg \in NotifyCfgChoices}
  /\ config = ConfigInit
  /\ call = NoCall

NextNotify ==
  \/ SpawnSubAgent(NotifyScenario)
  \/ SessionInitHook(NotifyScenario)
  \/ \E p \in NotifyProcs : NotifyCheck(p, NotifyScenario)
  \/ \E p \in NotifyProcs : NotifyLoad(p)
  \/ \E p \in NotifyProcs : NotifyMark(p)
  \/ \E p \in NotifyProcs : NotifySend(p)
  \/ Tick

SpecNotify == InitNotify /\ [][NextNotify]_vars

\* Notify hook runs with the POST awaited: every step of a started run is
\* taken in time, and so is the callback of a response that arrives.
InitDeliver ==
  /\ sessions = [id \in FileIds |-> NoFile]
  /\ project = NoProject
  /\ env = EmptyEnv
  /\ nextId = 0
  /\ procEnv = [p \in SubIds |-> NotSpawned]
  /\ race = RaceInit
  /\ notify \in {NotifyInit(cfg) : cfg \in NotifyCfgChoices}
  /\ config = ConfigInit
  /\ call = [p \in NotifyProcs |-> NoRequest]

NextDeliver ==
  \/ SpawnSubAgent(NotifyScenario)
  \/ SessionInitHook(NotifyScenario)
  \/ \E p \in NotifyProcs : NotifyCheck(p, NotifyScenario)
  \/ \E p \in NotifyProcs : NotifyLoad(p)
  \/ \E p \in NotifyProcs : NotifyMark(p)
  \/ \E p \in NotifyProcs : NotifyRequest(p)
  \/ \E p \in NotifyProcs : NotifyRespond(p)

SpecDeliver ==
  /\ InitDeliver
  /\ [][NextDeliver]_vars
  /\ \A p \in NotifyProcs :
       /\ WF_vars(NotifyLoad(p))
       /\ WF_vars(NotifyMark(p))
       /\ WF_vars(NotifyRequest(p))
       /\ WF_vars(NotifyRespond(p))

\* loadConfig for every pair of config files of the bounded universe.
InitConfig ==
  /\ sessions = [id \in FileIds |-> NoFile]
  /\ project = NoProject
  /\ env = EmptyEnv
  /\ nextId = 0
  /\ procEnv = [p \in SubIds |-> NotSpawned]
  /\ race = RaceInit
  /\ notify = NotifyInit(CHOOSE cfg \in NotifyCfgChoices : TRUE)
  /\ config \in {[ConfigInit EXCEPT !.globalFile = g, !.localFile = l] :
                   g \in ConfigFiles, l \in ConfigFiles}
  /\ call = NoCall

NextConfig == LoadConfig

SpecConfig == InitConfig /\ [][NextConfig]_vars

\* Library functions applied to every argument of their bounded universes.
InitCalls ==
  /\ sessions = [id \in FileIds |-> NoFile]
  /\ project = NoProject
  /\ env = EmptyEnv
  /\ nextId = 0
  /\ procEnv = [p \in SubIds |-> NotSpawned]
  /\ race = RaceInit
  /\ notify = NotifyInit(CHOOSE cfg \in NotifyCfgChoices : TRUE)
  /\ config = ConfigInit
  /\ \/ call \in LoadEnvCalls
     \/ call \in DeepMergeCalls
     \/ call \in GenerateCalls

NextCalls ==
  \/ LoadEnv
  \/ DeepMerge
  \/ GenerateId

SpecCalls == InitCalls /\ [][NextCalls]_vars

\* ------------------------------------------------------------ properties
\* the session files of the data directory
Files(st) == {id \in FileIds : st.S[id].exists}

\* GEMINI_TYPE=sub-agent with a parent id in the environment
IsSubAgentRun(in) == in.sub /\ (in.gkParent # None \/ in.geminiParent # None)

\* the session files a hook run has written, apart from one
OthersUntouched(st, after, id) == \A o \in FileIds \ {id} : after.S[o] = st.S[o]

\* C2: whatever hook a sub-agent process with a parent id runs (session-init
\* on any event, session-end, the reminder) and whatever its stdin, the run
\* creates no session file, and the only session file it writes is the one of
\* the parent it resolved.
C2_SubAgentCreatesNoFile ==
  /\ \A in \in InitInputs(FullScenario) :
       LET r == SessionInitMain(St, in)
       IN IsSubAgentRun(in) /\ Within(r.st) =>
            /\ Files(r.st) = Files(St)
            /\ OthersUntouched(St, r.st, FindParent(St, in).gkSessionId)
  /\ \A in \in EndInputs(FullScenario) :
       LET r == SessionEndMain(St, in)
       IN IsSubAgentRun(in) =>
            /\ Files(r.st) = Files(St)
            /\ OthersUntouched(St, r.st, FindParent(St, in).gkSessionId)
  /\ \A in \in RulesInputs(FullScenario) :
       IsSubAgentRun(in) => DevRulesMain(St, in).st.S = St.S

\* A sub-agent with a parent id has run its hooks: it is an entry of its
\* parent's session, and the parent's file is the only session file.
C2_Witness ==
  /\ \E id \in FileIds : \E i \in 1..Len(sessions[id].agents) :
       /\ sessions[id].agents[i].agentType = "Sub Agent"
       /\ sessions[id].agents[i].geminiSessionId \in SubIds
       /\ sessions[id].agents[i].ended
  /\ Cardinality(Files(St)) = 1
  /\ \E p \in SubIds : procEnv[p].spawned /\ procEnv[p].gkParent # None

\* the readable session files whose geminiSessionId is g
SessionsOf(st, g) ==
  {id \in FileIds : /\ st.S[id].exists /\ ~st.S[id].corrupt
                    /\ st.S[id].geminiSessionId = g}

\* What C3 asks of a run for g that reported out and left the state after.
Resumed(st, g, after, out) ==
  /\ Files(after) = Files(st)
  /\ \A id \in FileIds : after.S[id].agents = st.S[id].agents
  /\ out.isResume
  /\ out.gkSessionId \in SessionsOf(st, g)
  /\ after.E.ACTIVE_GK_SESSION_ID = out.gkSessionId
  /\ after.E.ACTIVE_GEMINI_SESSION_ID = g

\* C3: when a session file with geminiSessionId = G exists, a SessionStart run
\* of the session-init hook for G, and a call of initializeGeminiSession for
\* G, create no session file, add no agent entry, report the existing
\* gkSessionId with isResume = TRUE and leave .env naming that session and G.
C3_ResumeReconciles ==
  /\ \A in \in InitInputs(FullScenario) :
       LET r == SessionInitMain(St, in)
       IN /\ in.stdin = "ok" /\ in.event = "SessionStart" /\ ~IsSubAgentRun(in)
          /\ SessionsOf(St, in.G) # {} /\ Within(r.st)
          => Resumed(St, in.G, r.st, r.out)
  /\ \A g \in GeminiIds :
       LET r == initializeGeminiSession(St, g,
                  [activePlan |-> 0, suggestedPlan |-> 0, planDateFormat |-> 1])
       IN SessionsOf(St, g) # {} /\ Within(r.st)
          => Resumed(St, g, r.st, [gkSessionId |-> r.gkSessionId, isResume |-> r.isResume])

\* the summary of session id in the project file, <<>> when it has none
SummaryOf(st, id) ==
  IF SummaryIndex(st.P.sessions, id) > 0
  THEN <<st.P.sessions[SummaryIndex(st.P.sessions, id)]>> ELSE <<>>

\* C4: a main-agent SessionEnd run with session_id = G and no gk_session_id
\* ends the session whose geminiSessionId is G and touches no other session's
\* file or project summary, whatever .env names.
C4_EndsTheSessionOfG ==
  \A in \in EndInputs(FullScenario) : \A id \in SessionsOf(St, in.G) :
    LET r == SessionEndMain(St, in)
    IN /\ in.stdin = "ok" /\ in.event = "SessionEnd" /\ ~IsSubAgentRun(in)
       /\ in.gkPayload = None /\ SessionsOf(St, in.G) = {id}
       => /\ OthersUntouched(St, r.st, id)
          /\ \A o \in FileIds \ {id} : SummaryOf(r.st, o) = SummaryOf(St, o)
          /\ SummaryOf(r.st, id) # <<>> /\ SummaryOf(r.st, id)[1].ended

\* C5: every run of the four hooks ends with exit code 0, whatever its stdin
\* (empty and malformed included), whatever session files are missing or do
\* not parse, and whether or not the webhook delivery succeeds.
C5_HooksExitZero ==
  /\ \A in \in InitInputs(FullScenario) : SessionInitMain(St, in).out.exit = 0
  /\ \A in \in EndInputs(FullScenario) : SessionEndMain(St, in).out.exit = 0
  /\ \A in \in RulesInputs(FullScenario) : DevRulesMain(St, in).out.exit = 0
  /\ \A p \in Procs : \A in \in NotifyInputsOf(p) : \A alreadyNotified \in BOOLEAN :
       NotifyMain(St, in, alreadyNotified).exit = 0

\* A session file does not parse, a sub-agent is spawned, and runs take the
\* catch block: on malformed stdin and on a failed delivery.
C5_Witness ==
  /\ \E id \in FileIds : sessions[id].corrupt
  /\ \E p \in SubIds : procEnv[p].spawned
  /\ \E in \in InitInputs(FullScenario) :
       in.stdin = "malformed" /\ SessionInitMain(St, in).out.exit = ExitCaught
  /\ \E p \in Procs : \E in \in NotifyInputsOf(p) :
       /\ in.delivery = "connError"
       /\ NotifyMain(St, in, FALSE).path = "send"
       /\ NotifyMain(St, in, FALSE).exit = ExitCaught

\* the entries of a session's agents array for Gemini session g
EntriesOf(agents, g) == {i \in 1..Len(agents) : agents[i].geminiSessionId = g}

\* C10: after any sequence of a sub-agent's session-init runs with the same
\* session_id G, whatever its GEMINI_AGENT_ROLE, each session's agents array
\* holds at most one entry with geminiSessionId = G.
C10_OneEntryPerSubAgent ==
  \A id \in FileIds : \A g \in SubIds :
    Cardinality(EntriesOf(sessions[id].agents, g)) <= 1

\* C6: at every instant the project file and each session file, at its final
\* path, holds a complete JSON document: a reader never finds one that does
\* not parse.
C6_AtomicReplace ==
  /\ ~project.torn
  /\ \A id \in FileIds : ~sessions[id].corrupt

\* C7: once the session-init runs that raced for one geminiSessionId G have
\* all ended, at most one session file has geminiSessionId = G.
C7_OneFilePerGeminiId ==
  (\A p \in RaceProcs : race.proc[p].pc = "done")
    => \A g \in GeminiIds : Cardinality(SessionsOf(St, g)) <= 1

C9_OnePostPerWindow ==
  \A a \in notify.posts : \A b \in notify.posts :
    a # b /\ a.id = b.id /\ a.at <= b.at => b.at - a.at >= DedupWindowMs

\* C1: in the config loadConfig returns, every key (at any depth) whose
\* layered value is a primitive has that value: the local file's if the local
\* file defines the key, else the global file's if it defines it, else
\* DEFAULT_CONFIG's.
C1_LayeredPrecedence ==
  config.loaded =>
    \A p \in ConfigPaths :
      LET layered ==
            IF config.localFile.doc[p] # "absent" THEN config.localFile.doc[p]
            ELSE IF config.globalFile.doc[p] # "absent" THEN config.globalFile.doc[p]
            ELSE DEFAULT_CONFIG[p]
      IN layered \notin {"absent", "{}"} /\ ~IsArray(layered) => config.result[p] = layered

\* C11: in the config loadConfig returns, plan.reportsDir, paths.docs and
\* paths.plans each resolve to the project root or a location inside it, and
\* a configured value that resolves outside the root has been replaced by the
\* DEFAULT_CONFIG value.
C11_PathsInsideRoot ==
  config.loaded =>
    \A p \in {<<"plan", "reportsDir">>, <<"paths", "docs">>, <<"paths", "plans">>} :
      /\ InsideRoot(resolve(config.result[p]))
      /\ \A f \in {config.globalFile, config.localFile} :
            ~Falsy(f.doc[p]) /\ ~InsideRoot(resolve(f.doc[p])) => config.result[p] # f.doc[p]

\* C12: the value loadEnv returns for a variable is process.env's if the
\* variable is set there, else the value .gemini/.env gives it if that file
\* defines it, else the value of the notifications .env file (unset if no
\* source has it).
C12_EnvPriority ==
  call.fn = "loadEnv" /\ call.returned =>
    \A k \in EnvVars :
      LET Defs(file) == {i \in 1..Len(file.lines) : file.lines[i].key = k}
          Value(file) ==
            Unquote(file.lines[CHOOSE i \in Defs(file) : \A j \in Defs(file) : j <= i].raw)
      IN call.result[k] =
           IF call.processEnv[k] # "unset" THEN call.processEnv[k]
           ELSE IF Defs(call.geminiFile) # {} THEN Value(call.geminiFile)
           ELSE IF Defs(call.notificationsFile) # {} THEN Value(call.notificationsFile)
           ELSE "unset"

\* C13: deepMerge(target, source) of two objects returns an object in which a
\* key of source holds source's primitive, a copy of source's array with
\* exactly its elements, or the recursive merge of the two nested objects, and
\* every other key holds target's value; no object or array that existed
\* before the call (target, source and everything they refer to) is changed.
C13_DeepMerge ==
  call.fn = "deepMerge" /\ call.returned =>
    LET h0 == call.heap
        h == call.after
        r == call.result
        Fields(heap, val) == heap[val.id].fields
    IN /\ \A i \in 1..Len(h0) : h[i] = h0[i]
       /\ call.target.t = "ref" /\ call.source.t = "ref" =>
            /\ r.t = "ref" /\ r.id > Len(h0) /\ ~h[r.id].arr
            /\ \A key \in MergeKeys :
                 LET sv == Fields(h0, call.source)[key]
                     tv == Fields(h0, call.target)[key]
                     rv == Fields(h, r)[key]
                 IN CASE sv.t = "none" -> rv = tv
                      [] sv.t = "prim" -> rv = sv
                      [] sv.t = "ref" /\ h0[sv.id].arr ->
                           /\ rv.t = "ref" /\ rv.id # sv.id
                           /\ h[rv.id].arr /\ h[rv.id].elems = h0[sv.id].elems
                      [] OTHER ->
                           /\ rv.t = "ref" /\ ~h[rv.id].arr
                           /\ \A k2 \in MergeKeys :
                                Fields(h, rv)[k2] =
                                  IF Fields(h0, sv)[k2].t # "none" THEN Fields(h0, sv)[k2]
                                  ELSE IF tv.t = "ref" /\ ~h0[tv.id].arr
                                  THEN Fields(h0, tv)[k2] ELSE Undefined

\* Both arguments hold a non-empty array under one key, or nested objects
\* that both define keys, and deepMerge has returned.
C13_Witness ==
  /\ call.fn = "deepMerge" /\ call.returned
  /\ call.target = Ref(1) /\ call.source = Ref(2)
  /\ call.heap[1].fields["k"] = Ref(5) /\ call.heap[2].fields["k"] = Ref(6)
  /\ call.heap[5].elems # <<>> /\ call.heap[6].elems # <<>>
  /\ call.heap[6].elems # call.heap[5].elems
  /\ call.heap[1].fields["n"] # Undefined /\ call.heap[2].fields["n"] = Undefined

\* C14: for every non-empty appName (hyphens allowed) and every pid,
\* parseGkSessionId of the id generateGkSessionId made is not null and gives
\* back that appName and that pid, so that getPidFromSessionId returns the pid
\* and detectSessionType a type.
C14_SessionIdRoundTrip ==
  call.fn = "generateGkSessionId" /\ call.returned =>
    /\ parseGkSessionId(call.id).ok
    /\ parseGkSessionId(call.id).appName = call.appName
    /\ parseGkSessionId(call.id).pid = call.pid
    /\ getPidFromSessionId(call.id) = call.pid
    /\ detectSessionType(call.id) # "null"

\* C15: once the dev-rules hook has injected its reminder for a session, a
\* further BeforeAgent run for that session while the injection is recent (the
\* marker is in one of the last five user messages of its chat) prints no
\* additionalContext.
C15_ReminderSkipped ==
  \A in \in RulesInputs(MainScenario) :
    LET session == getSession(St, readEnv(St.E).ACTIVE_GK_SESSION_ID)
    IN (/\ in.stdin = "ok" /\ in.chat = "marker"
        /\ session.exists /\ session.lastReminder
        /\ session.geminiSessionId = in.G)
       => ~DevRulesMain(St, in).context

\* C16: once an agent entry has a non-empty prompt, no BeforeAgent run of the
\* session-init hook, no updateAgentPrompt call and no addAgent call for that
\* agent changes it (they are tried with another prompt, 2).
C16_PromptCapturedOnce ==
  \A id \in FileIds : \A i \in 1..Len(sessions[id].agents) :
    LET agent == sessions[id].agents[i]
        Kept(st) ==
          /\ Len(st.S[id].agents) >= i
          /\ st.S[id].agents[i].gkSessionId = agent.gkSessionId
          /\ st.S[id].agents[i].prompt = agent.prompt
    IN sessions[id].exists /\ agent.prompt # 0 =>
         /\ \A in \in InitInputs(SubScenario) :
              in.event = "BeforeAgent" =>
                Kept(SessionInitMain(St, [in EXCEPT !.prompt = 2, !.agentPrompt = 2]).st)
         /\ Kept(updateAgentPrompt(St, id, agent.gkSessionId, 2))
         /\ Kept(addAgent(St, id,
                   [gkSessionId |-> agent.gkSessionId,
                    geminiSessionId |-> agent.geminiSessionId,
                    geminiProjectHash |-> agent.geminiProjectHash,
                    parentGkSessionId |-> agent.parentGkSessionId,
                    agentRole |-> agent.agentRole, prompt |-> 2]))

\* A session whose main agent and a sub-agent both have a prompt; a further
\* updateAgentPrompt for the main agent writes nothing.
C16_Witness ==
  \E id \in FileIds :
    /\ sessions[id].exists /\ Len(sessions[id].agents) >= 2
    /\ sessions[id].geminiSessionId = <<"gem", 1>>
    /\ sessions[id].agents[1].agentType = "Main Agent"
    /\ sessions[id].agents[1].prompt # 0
    /\ \E i \in 2..Len(sessions[id].agents) :
         /\ sessions[id].agents[i].agentType = "Sub Agent"
         /\ sessions[id].agents[i].prompt # 0
    /\ updateAgentPrompt(St, id, id, 2) = St

\* C17: once a session's geminiProjectHash, or an agent entry's
\* geminiProjectHash, is non-empty, no call of captureGeminiProjectHash,
\* captureAgentProjectHash or backfillProjectHash and no run of the init hook
\* on BeforeModel changes it, whatever hash the call or the payload carries
\* (2 is a hash no session holds).
C17_ProjectHashCapturedOnce ==
  LET KeptIn(st, id) ==
        sessions[id].exists /\ ~sessions[id].corrupt =>
          /\ sessions[id].geminiProjectHash # 0 =>
               st.S[id].geminiProjectHash = sessions[id].geminiProjectHash
          /\ \A i \in 1..Len(sessions[id].agents) :
               sessions[id].agents[i].geminiProjectHash # 0 =>
                 /\ Len(st.S[id].agents) >= i
                 /\ st.S[id].agents[i].gkSessionId = sessions[id].agents[i].gkSessionId
                 /\ st.S[id].agents[i].geminiProjectHash =
                      sessions[id].agents[i].geminiProjectHash
      Kept(st) == \A id \in FileIds : KeptIn(st, id)
  IN /\ \A id \in FileIds : \A h \in {0, 2}, t \in {0, 2} :
          Kept(captureGeminiProjectHash(St, id, h, t))
     /\ \A id \in FileIds : \A g \in GeminiIds \cup SubIds :
          Kept(captureAgentProjectHash(St, id, g, 2))
     /\ \A c \in FileIds : \A p \in FileIds \ {c} :
          /\ Kept(backfillProjectHash(St, c, p))
          /\ sessions[c].exists /\ ~sessions[c].corrupt =>
               KeptIn(backfillProjectHash(
                        [St EXCEPT !.S[c].geminiProjectHash = 2, !.S[c].geminiTempDir = 2],
                        c, p), p)
     /\ \A in \in InitInputs(SubScenario) : in.event = "BeforeModel" =>
          Kept(SessionInitMain(St, [in EXCEPT !.hash = 2, !.tempDir = 2]).st)

\* A parent session that holds a project hash, with a sub-agent entry that
\* holds one too: both captures have acted, and a further capture with
\* another hash changes nothing.
C17_Witness ==
  \E id \in FileIds :
    /\ sessions[id].exists /\ sessions[id].geminiProjectHash # 0
    /\ \E i \in 1..Len(sessions[id].agents) :
         /\ sessions[id].agents[i].agentType = "Sub Agent"
         /\ sessions[id].agents[i].geminiProjectHash # 0
         /\ captureAgentProjectHash(St, id, sessions[id].agents[i].geminiSessionId, 2) = St
    /\ captureGeminiProjectHash(St, id, 2, 0).S = sessions

\* The state in which plan resolution has suggested a plan for session id:
\* the session file, and .env when it names the session, hold the suggestion.
WithSuggestedPlan(st, id) ==
  [st EXCEPT !.S[id].suggestedPlan = 1,
             !.E.SUGGESTED_PLAN = IF st.E.ACTIVE_GK_SESSION_ID = id THEN 1 ELSE @]

\* C18: setActivePlan(projectDir, gkSessionId, planPath) sets the plan in the
\* session and in .env. When it returns true the session file has activePlan =
\* planPath and suggestedPlan = null and is otherwise as before; .env has
\* ACTIVE_PLAN = planPath, an empty SUGGESTED_PLAN and ACTIVE_GK_SESSION_ID =
\* gkSessionId; the Gemini session id, the two project hashes and the date
\* format of .env are the session's, or .env's former ones where the session
\* has none, and are unchanged when the session is the one .env named. When
\* the session does not exist it returns false and changes neither the session
\* files nor .env.
C18_SetActivePlan ==
  \A id \in FileIds \cup {None} : \A planPath \in {1, 2} : \A suggested \in BOOLEAN :
    LET before == IF suggested /\ id \in FileIds /\ sessions[id].exists /\ ~sessions[id].corrupt
                  THEN WithSuggestedPlan(St, id) ELSE St
        old == getSession(before, id)
        r == setActivePlan(before, 1, id, planPath)
        new == r.st.S[id]
        e == r.st.E
    IN /\ r.returned = old.exists
       /\ ~r.returned => r.st = before
       /\ r.returned =>
            /\ new = [old EXCEPT !.activePlan = planPath, !.suggestedPlan = 0]
            /\ \A other \in FileIds \ {id} : r.st.S[other] = before.S[other]
            /\ e.ACTIVE_PLAN = planPath
            /\ e.SUGGESTED_PLAN = 0
            /\ e.ACTIVE_GK_SESSION_ID = id
            /\ e.ACTIVE_GEMINI_SESSION_ID =
                 OrId(old.geminiSessionId, before.E.ACTIVE_GEMINI_SESSION_ID)
            /\ e.GK_PROJECT_HASH = Or0(old.gkProjectHash, before.E.GK_PROJECT_HASH)
            /\ e.GEMINI_PROJECT_HASH =
                 Or0(old.geminiProjectHash, before.E.GEMINI_PROJECT_HASH)
            /\ e.PLAN_DATE_FORMAT = Or0(old.planDateFormat, before.E.PLAN_DATE_FORMAT)
            /\ before.E.ACTIVE_GK_SESSION_ID = id =>
                 /\ e.ACTIVE_GEMINI_SESSION_ID = before.E.ACTIVE_GEMINI_SESSION_ID
                 /\ e.GK_PROJECT_HASH = before.E.GK_PROJECT_HASH
                 /\ e.GEMINI_PROJECT_HASH = before.E.GEMINI_PROJECT_HASH
                 /\ e.PLAN_DATE_FORMAT = before.E.PLAN_DATE_FORMAT

\* The session .env names has captured its project hash, a second session
\* exists and a third id names no session: the call returns true for the
\* first two, rewriting .env, and false for the third.
C18_Witness ==
  \E id \in FileIds : \E other \in FileIds \ {id} : \E missing \in FileIds :
    /\ env.ACTIVE_GK_SESSION_ID = id
    /\ sessions[id].exists /\ sessions[id].geminiProjectHash # 0
    /\ env.GEMINI_PROJECT_HASH # 0
    /\ sessions[other].exists /\ ~sessions[other].corrupt
    /\ ~sessions[missing].exists
    /\ setActivePlan(St, 1, id, 2).returned
    /\ setActivePlan(St, 1, id, 2).st.E.ACTIVE_PLAN = 2
    /\ setActivePlan(St, 1, other, 2).st.E.ACTIVE_GK_SESSION_ID = other
    /\ ~setActivePlan(St, 1, missing, 2).returned

\* C19: a SessionEnd run of a sub-agent process with a parent id, when the
\* parent session is found and holds an entry with the sub-agent's
\* geminiSessionId, gives that entry (the first such) the status completed or
\* failed, an end time and the exit code; every other field of the entry, the
\* main agent's entry and every other entry, every other field of the parent's
\* file, the other session files, the project record and .env stay as they were.
C19_SubAgentEndFrame ==
  \A in \in EndInputs(SubScenario) :
    LET parent == FindParent(St, in)
        pid == parent.gkSessionId
        idx == IndexByGemini(parent.session.agents, in.G)
        after == SessionEndMain(St, in).st
        old == parent.session.agents[idx]
        new == after.S[pid].agents[idx]
    IN /\ in.event = "SessionEnd" /\ in.sub
       /\ in.geminiParent # None \/ in.gkParent # None
       /\ parent.session.exists /\ pid # None /\ idx > 0
       => /\ Len(after.S[pid].agents) = Len(parent.session.agents)
          /\ new.status \in {"completed", "failed"}
          /\ new.status = EndResult(in).status
          /\ new.ended
          /\ new.exitCode = EndResult(in).exitCode
          /\ new = [old EXCEPT !.status = new.status, !.ended = TRUE,
                               !.exitCode = new.exitCode]
          /\ \A j \in 1..Len(parent.session.agents) :
               j # idx => after.S[pid].agents[j] = parent.session.agents[j]
          /\ after.S[pid] = [sessions[pid] EXCEPT !.agents = after.S[pid].agents]
          /\ OthersUntouched(St, after, pid)
          /\ after.P = project
          /\ after.E = env

\* A running sub-agent is an entry of its parent's session next to the main
\* agent's entry, and its SessionEnd run with exit code 1 marks it failed.
C19_Witness ==
  \E in \in EndInputs(SubScenario) :
    LET parent == FindParent(St, in)
        idx == IndexByGemini(parent.session.agents, in.G)
    IN /\ in.event = "SessionEnd" /\ in.sub /\ in.exitCode = 1
       /\ parent.session.exists /\ parent.gkSessionId # None /\ idx > 1
       /\ parent.session.agents[1].agentType = "Main Agent"
       /\ ~parent.session.agents[idx].ended
       /\ project.exists /\ env.ACTIVE_GK_SESSION_ID # None
       /\ SessionEndMain(St, in).st.S[parent.gkSessionId].agents[idx].status = "failed"

\* C20: the config loadConfig returns always has a trust section, the merged
\* one or DEFAULT_CONFIG.trust, whether or not a global or a local config file
\* exists.
C20_TrustAlwaysPresent ==
  config.loaded =>
    /\ config.result[<<"trust">>] = "{}"
    /\ config.result[<<"trust", "enabled">>] \in
         {config.localFile.doc[<<"trust", "enabled">>],
          config.globalFile.doc[<<"trust", "enabled">>],
          DEFAULT_CONFIG[<<"trust", "enabled">>]} \ {"absent"}

\* C21: a notify hook run started for a SessionEnd event eventually
\* terminates, with exit code 0, whether the webhook endpoint answers with
\* success, answers with an error, fails to connect or never responds.
C21_NotifyTerminates ==
  \A p \in NotifyProcs :
    (notify.proc[p].pc # "start") ~> (notify.proc[p].pc = "done")
====
